---- MODULE Spec2Model ----
(***************************************************************************)
(* DM4800 Mixer Controller (src/DM4800v022a.py): the CC mapping table, the *)
(* mono/stereo registry, the channel strips with their Qt signal           *)
(* connections, the control router (local change -> send_cc, inbound CC -> *)
(* strip) and the display-mode rebuild.                                    *)
(*                                                                         *)
(* Every handler of the program runs to completion on the Qt GUI thread,   *)
(* so every handler is one action.  A handler is written as an operator    *)
(* from a window record w to a window record:                              *)
(*   w.settings_mode  settings['stereo_display_mode']                      *)
(*   w.strips         channel_widgets / bus_widgets / aux_widgets /        *)
(*                    master_widget, keyed by <<section, number>>          *)
(*   w.saved          _saved_control_state                                 *)
(*   w.rebuilding     _rebuilding_interface                                *)
(*   w.outport        MidiManager._outport is open                         *)
(*   w.trace          what the running handler has done so far             *)
(***************************************************************************)
EXTENDS Integers, Sequences, FiniteSets, TLC

(***************************************************************************)
(* Program constants                                                       *)
(***************************************************************************)
PAN_CENTER_CC == 64
FADER_ZERO_DB_CC == 102
MASTER_ZERO_DB_CC == 127
MASTER_UI_MAX_CC == 140
ROW_STRIP_LIMIT == 24
AUX_STRIP_LIMIT == 12

(***************************************************************************)
(* Bounds of the model.  The program has 64 channels, 24 buses and 12      *)
(* auxes; the model keeps the first few of each section.                   *)
(***************************************************************************)
ChannelMax == 3
BusMax == 2
AuxMax == 2
MaxSteps == 3

Min(a, b) == IF a < b THEN a ELSE b
Max(a, b) == IF a > b THEN a ELSE b

(***************************************************************************)
(* Strings.  A key such as "Channel 2" is the pair <<"Channel", 2>> of its *)
(* two whitespace-separated tokens.  str.lower() and str.title() are       *)
(* tables over the words the configuration uses.                           *)
(***************************************************************************)
Lower(s) ==
    CASE s = "Stereo" -> "stereo"
      [] s = "STEREO" -> "stereo"
      [] s = "Mono" -> "mono"
      [] s = "Channel" -> "channel"
      [] s = "Bus" -> "bus"
      [] s = "Aux" -> "aux"
      [] s = "Master" -> "master"
      [] s = "Fader" -> "fader"
      [] OTHER -> s

Title(s) ==
    CASE s = "channel" -> "Channel"
      [] s = "bus" -> "Bus"
      [] s = "aux" -> "Aux"
      [] s = "master" -> "Master"
      [] OTHER -> s

\* f"{section.title()} {number}"
KeyOf(section, number) == <<Title(section), number>>

\* parse_section_and_number on a key of two tokens
ParseSectionAndNumber(key) ==
    LET raw == Lower(key[1])
    IN  IF raw \in {"channel", "bus", "aux"} THEN <<raw, key[2]>>
        ELSE IF raw = "master" THEN <<"master", 1>>
        ELSE <<raw, key[2]>>

(***************************************************************************)
(* Mono/stereo registry (MonoStereoManager)                                *)
(***************************************************************************)
RegistrySections == <<"Channel", "Bus", "Aux">>

SectionMax(S) ==
    CASE S = "Channel" -> ChannelMax
      [] S = "Bus" -> BusMax
      [] S = "Aux" -> AuxMax

RegistryKeys ==
    {<<S, i>> : S \in {"Channel"}, i \in 1..ChannelMax}
    \cup {<<S, i>> : S \in {"Bus"}, i \in 1..BusMax}
    \cup {<<S, i>> : S \in {"Aux"}, i \in 1..AuxMax}

\* The DM4800MonoStereo.csv of the model: Channel 1-2, Bus 1-2 and Aux 1-2
\* are declared stereo on their odd member, everything else is Mono.
MonoStereoData ==
    [k \in RegistryKeys |->
        IF k = <<"Channel", 1>> THEN "Stereo"
        ELSE IF k = <<"Bus", 1>> THEN "stereo"
        ELSE IF k = <<"Aux", 1>> THEN "STEREO"
        ELSE "Mono"]

\* self.mono_stereo_data.get(key, "")
TagOf(data, k) == IF k \in DOMAIN data THEN data[k] ELSE ""

\* range(1, max_num + 1, 2)
OddNumbers(maxNum) == {i \in 1..maxNum : i % 2 = 1}

DEFAULT_MONO_STEREO_TEXT == "Mono"

\* A key the CSV file has no row for
NoRow == "<no row>"

\* MonoStereoManager.load_mono_stereo_data on an existing file: the rows of
\* the file, then DEFAULT_MONO_STEREO_TEXT for every default key without a row
LoadedMonoStereoData(csv) ==
    [k \in RegistryKeys |-> IF csv[k] = NoRow THEN DEFAULT_MONO_STEREO_TEXT ELSE csv[k]]

\* Variant: the tag is compared with "stereo" without .lower()
DetectStereoPairsCaseSensitive(data) ==
    LET sections == {RegistrySections[j] : j \in 1..Len(RegistrySections)}
        lefts == {<<S, i>> : S \in sections, i \in 1..Max(ChannelMax, Max(BusMax, AuxMax))}
        isLeft(k) == /\ k[2] \in OddNumbers(SectionMax(k[1]))
                     /\ TagOf(data, k) = "stereo"
                     /\ k[2] + 1 <= SectionMax(k[1])
        L == {k \in lefts : isLeft(k)}
        R == {<<k[1], k[2] + 1>> : k \in L}
    IN  [k \in L \cup R |-> IF k \in L THEN <<k[1], k[2] + 1>> ELSE <<k[1], k[2] - 1>>]

\* Variant: the even member's tag decides as well
DetectStereoPairsEitherTag(data) ==
    LET sections == {RegistrySections[j] : j \in 1..Len(RegistrySections)}
        lefts == {<<S, i>> : S \in sections, i \in 1..Max(ChannelMax, Max(BusMax, AuxMax))}
        isLeft(k) == /\ k[2] \in OddNumbers(SectionMax(k[1]))
                     /\ \/ Lower(TagOf(data, k)) = "stereo"
                        \/ Lower(TagOf(data, <<k[1], k[2] + 1>>)) = "stereo"
                     /\ k[2] + 1 <= SectionMax(k[1])
        L == {k \in lefts : isLeft(k)}
        R == {<<k[1], k[2] + 1>> : k \in L}
    IN  [k \in L \cup R |-> IF k \in L THEN <<k[1], k[2] + 1>> ELSE <<k[1], k[2] - 1>>]

\* MonoStereoManager._detect_stereo_pairs
DetectStereoPairs(data) ==
    LET sections == {RegistrySections[j] : j \in 1..Len(RegistrySections)}
        lefts == {<<S, i>> : S \in sections, i \in 1..Max(ChannelMax, Max(BusMax, AuxMax))}
        isLeft(k) == /\ k[2] \in OddNumbers(SectionMax(k[1]))
                     /\ Lower(TagOf(data, k)) = "stereo"
                     /\ k[2] + 1 <= SectionMax(k[1])
        L == {k \in lefts : isLeft(k)}
        R == {<<k[1], k[2] + 1>> : k \in L}
    IN  [k \in L \cup R |-> IF k \in L THEN <<k[1], k[2] + 1>> ELSE <<k[1], k[2] - 1>>]

stereo_pairs == DetectStereoPairs(MonoStereoData)

NoKey == <<"", 0>>

\* The four queries of MonoStereoManager on a manager whose stereo_pairs is sp
IsStereoPairIn(sp, key) == key \in DOMAIN sp

\* self.stereo_pairs.get(key): NoKey stands for None
StereoPartnerIn(sp, key) == IF key \in DOMAIN sp THEN sp[key] ELSE NoKey

IsStereoLeftIn(sp, key) == key \in DOMAIN sp /\ key[2] % 2 = 1

IsStereoRightIn(sp, key) == key \in DOMAIN sp /\ key[2] % 2 = 0

\* The queries on the manager of the window
is_stereo_pair(key) == IsStereoPairIn(stereo_pairs, key)

get_stereo_partner(key) == StereoPartnerIn(stereo_pairs, key)

is_stereo_left(key) == IsStereoLeftIn(stereo_pairs, key)

is_stereo_right(key) == IsStereoRightIn(stereo_pairs, key)

(***************************************************************************)
(* Mapping table (load_midi_mappings).  A Python dict is a sequence of     *)
(* <<key, value>> pairs in insertion order with distinct keys.             *)
(***************************************************************************)
RECURSIVE DictIndex(_, _, _)
DictIndex(d, k, i) ==
    IF i > Len(d) THEN 0
    ELSE IF d[i][1] = k THEN i
    ELSE DictIndex(d, k, i + 1)

DictHas(d, k) == DictIndex(d, k, 1) # 0

DictGet(d, k) == d[DictIndex(d, k, 1)][2]

\* d[k] = v: an existing key keeps its place, a new key goes last
DictPut(d, k, v) ==
    LET i == DictIndex(d, k, 1)
    IN  IF i = 0 THEN Append(d, <<k, v>>) ELSE [d EXCEPT ![i] = <<k, v>>]

\* The DM4800_CC_Values.csv of the model, one record per row.  The mute
\* of Channel 3 carries a MIDI channel beyond 16, and Channel 9 is a channel the window
\* builds no strip for.
MappingRows ==
    << [name |-> <<"Channel", 1>>, type |-> "Fader", midi_channel |-> 1, cc_number |-> 10],
       [name |-> <<"Channel", 1>>, type |-> "pan",   midi_channel |-> 1, cc_number |-> 11],
       [name |-> <<"Channel", 1>>, type |-> "mute",  midi_channel |-> 1, cc_number |-> 12],
       [name |-> <<"Channel", 2>>, type |-> "fader", midi_channel |-> 1, cc_number |-> 20],
       [name |-> <<"Channel", 3>>, type |-> "pan",   midi_channel |-> 1, cc_number |-> 31],
       [name |-> <<"Channel", 3>>, type |-> "mute",  midi_channel |-> 17, cc_number |-> 32],
       [name |-> <<"Bus", 2>>,     type |-> "fader", midi_channel |-> 2, cc_number |-> 20],
       [name |-> <<"Aux", 2>>,     type |-> "fader", midi_channel |-> 3, cc_number |-> 20],
       [name |-> <<"Master", 1>>,  type |-> "fader", midi_channel |-> 16, cc_number |-> 7],
       [name |-> <<"Channel", 9>>, type |-> "fader", midi_channel |-> 4, cc_number |-> 40] >>

\* Variant: the Type column is used as it stands, without .lower()
RECURSIVE LoadRowsRawType(_, _, _)
LoadRowsRawType(rows, i, acc) ==
    IF i > Len(rows) THEN acc
    ELSE LET row == rows[i]
             sn == ParseSectionAndNumber(row.name)
             mm == [section |-> sn[1], number |-> sn[2], type |-> row.type,
                    midi_channel |-> row.midi_channel, cc_number |-> row.cc_number]
         IN  LoadRowsRawType(rows, i + 1, DictPut(acc, <<sn[1], sn[2], row.type>>, mm))

RECURSIVE LoadRows(_, _, _)
LoadRows(rows, i, acc) ==
    IF i > Len(rows) THEN acc
    ELSE LET row == rows[i]
             sn == ParseSectionAndNumber(row.name)
             key == <<sn[1], sn[2], Lower(row.type)>>
             mm == [section |-> sn[1], number |-> sn[2], type |-> Lower(row.type),
                    midi_channel |-> row.midi_channel, cc_number |-> row.cc_number]
         IN  LoadRows(rows, i + 1, DictPut(acc, key, mm))

load_midi_mappings(rows) == LoadRows(rows, 1, <<>>)

mappings == load_midi_mappings(MappingRows)

(***************************************************************************)
(* The same two functions on text.  A string is the sequence of the tokens *)
(* str.split() gives; a field of a row is one token.  int() is a table     *)
(* over the numerals in use and raises ValueError on every other token.    *)
(***************************************************************************)
IntTokens == {"1", "2", "7"}

IntOf(tok) ==
    CASE tok = "1" -> 1
      [] tok = "2" -> 2
      [] tok = "7" -> 7

\* The outcome of a call: a returned value, or an exception that left it
NoResult == [raised |-> FALSE, value |-> <<"", 0>>]

Raised == [raised |-> TRUE, value |-> <<"", 0>>]

Returned(v) == [raised |-> FALSE, value |-> v]

\* s.strip().lower(), token by token
LowerText(s) == [i \in 1..Len(s) |-> Lower(s[i])]

\* raw.startswith(prefix), decided by the first token
StartsWith(raw, prefix) ==
    /\ raw # <<>>
    /\ \/ raw[1] = prefix
       \/ prefix = "bus" /\ raw[1] = "buss"

\* "master" in raw
ContainsMaster(raw) == \E i \in 1..Len(raw) : raw[i] = "master"

\* The string the tokens came from
RECURSIVE JoinTokens(_)
JoinTokens(raw) ==
    IF raw = <<>> THEN ""
    ELSE IF Len(raw) = 1 THEN raw[1]
    ELSE raw[1] \o " " \o JoinTokens(Tail(raw))

\* (section, int(raw.split()[-1])) of a recognised prefix: int() is not guarded
SectionWithInt(section, raw) ==
    IF raw[Len(raw)] \in IntTokens THEN Returned(<<section, IntOf(raw[Len(raw)])>>)
    ELSE Raised

\* try: (parts[0], int(parts[-1])) except Exception: (raw, 1)
ParseParts(raw) ==
    IF raw # <<>> /\ raw[Len(raw)] \in IntTokens
    THEN Returned(<<raw[1], IntOf(raw[Len(raw)])>>)
    ELSE Returned(<<JoinTokens(raw), 1>>)

ParseLowered(raw) ==
    IF StartsWith(raw, "channel") THEN SectionWithInt("channel", raw)
    ELSE IF StartsWith(raw, "bus") \/ StartsWith(raw, "buss") THEN SectionWithInt("bus", raw)
    ELSE IF StartsWith(raw, "aux") THEN SectionWithInt("aux", raw)
    ELSE IF ContainsMaster(raw) THEN Returned(<<"master", 1>>)
    ELSE ParseParts(raw)

parse_section_and_number(s) == ParseLowered(LowerText(s))

\* MidiMapping(section, number, type_raw, midi_ch, cc_num) of a text row
\* whose three conversions succeed
TextMapping(row, sn) ==
    [section |-> sn[1], number |-> sn[2], type |-> Lower(row.type),
     midi_channel |-> IntOf(row.midi_channel), cc_number |-> IntOf(row.cc_number)]

\* int(row.get('MIDI Channel', '1')), int(row.get('CC_Number', '0')) or
\* parse_section_and_number raises on this row
RowRaises(row) ==
    \/ row.midi_channel \notin IntTokens
    \/ row.cc_number \notin IntTokens
    \/ parse_section_and_number(row.name).raised

\* mappings[key] = MidiMapping(...)
PutTextRow(acc, row, sn) == DictPut(acc, <<sn[1], sn[2], Lower(row.type)>>, TextMapping(row, sn))

\* The row loop: an exception in a row leaves the function at once
RECURSIVE LoadTextRows(_, _, _)
LoadTextRows(rows, i, acc) ==
    IF i > Len(rows) THEN Returned(acc)
    ELSE IF RowRaises(rows[i]) THEN Raised
    ELSE LoadTextRows(rows, i + 1,
                      PutTextRow(acc, rows[i], parse_section_and_number(rows[i].name).value))

load_midi_mappings_text(rows) == LoadTextRows(rows, 1, <<>>)

\* on_midi_cc's lazily built _rev_index: (midi_channel, cc_number) -> key
RECURSIVE BuildRevIndex(_, _, _)
BuildRevIndex(m, i, rev) ==
    IF i > Len(m) THEN rev
    ELSE BuildRevIndex(m, i + 1,
            DictPut(rev, <<m[i][2].midi_channel, m[i][2].cc_number>>, m[i][1]))

rev_index == BuildRevIndex(mappings, 1, <<>>)

(***************************************************************************)
(* Channel strips.  A strip is a record of its widgets' values and of the  *)
(* slots connected to its four signals, in connection order:               *)
(*   fader_vc   FaderWithScale.valueChanged                                *)
(*   toggled    MuteButton.toggled (QPushButton)                           *)
(*   toggledCC  MuteButton.toggledCC                                       *)
(*   pan_vc     PanDial.valueChanged (QDial)                               *)
(* stereo_partner_strip and stereo_partner_num are numbers of the strip's  *)
(* own section, 0 for None.                                                *)
(***************************************************************************)
Slot(f, ch, cc, ctl) == [f |-> f, midi_channel |-> ch, cc_number |-> cc, ctl |-> ctl]

SendSlot(m) == Slot("send_cc", m.midi_channel, m.cc_number, m.type)

SyncSlot(ctl) == Slot("sync_to_partner", 0, 0, ctl)

OnToggledSlot == Slot("_on_toggled", 0, 0, "mute")

OnPanChangedSlot == Slot("_on_pan_changed", 0, 0, "pan")

\* ChannelStrip.__init__ (with MuteButton.__init__ and FaderWithScale.__init__)
NewChannelStrip(has_pan, has_mute, is_master, is_pair, partner_num) ==
    [cls |-> "ChannelStrip",
     is_master |-> is_master, has_pan |-> has_pan, has_mute |-> has_mute,
     is_stereo_pair |-> is_pair, stereo_partner_num |-> partner_num,
     stereo_partner_strip |-> 0, left_num |-> 0, right_num |-> 0,
     fader |-> IF is_master THEN MASTER_ZERO_DB_CC ELSE FADER_ZERO_DB_CC,
     pan |-> PAN_CENTER_CC, mute |-> FALSE,
     fader_vc |-> <<>>,
     toggled |-> IF has_mute THEN <<OnToggledSlot>> ELSE <<>>,
     toggledCC |-> <<>>,
     pan_vc |-> IF has_pan THEN <<OnPanChangedSlot>> ELSE <<>>]

\* WideStereoStrip.__init__: no is_stereo_pair and no stereo_partner_strip
\* attribute, so every hasattr(...) test on them is false
NewWideStereoStrip(has_pan, has_mute, left_num, right_num) ==
    [cls |-> "WideStereoStrip",
     is_master |-> FALSE, has_pan |-> has_pan, has_mute |-> has_mute,
     is_stereo_pair |-> FALSE, stereo_partner_num |-> 0,
     stereo_partner_strip |-> 0, left_num |-> left_num, right_num |-> right_num,
     fader |-> FADER_ZERO_DB_CC,
     pan |-> PAN_CENTER_CC, mute |-> FALSE,
     fader_vc |-> <<>>,
     toggled |-> IF has_mute THEN <<OnToggledSlot>> ELSE <<>>,
     toggledCC |-> <<>>,
     pan_vc |-> IF has_pan THEN <<OnPanChangedSlot>> ELSE <<>>]

\* dict[key] = value on a dict whose order does not matter
Put(f, k, v) == [x \in DOMAIN f \cup {k} |-> IF x = k THEN v ELSE f[x]]

get_fader_value(s) == s.fader

get_pan_value(s) == IF s.has_pan THEN s.pan ELSE PAN_CENTER_CC

get_mute_value(s) == IF s.has_mute THEN s.mute ELSE FALSE

(***************************************************************************)
(* What a handler does is logged in w.trace, one record per step:          *)
(*   "send"    a call of MidiManager.send_cc(ch, cc, val), made by a slot  *)
(*             of strip key                                                *)
(*   "wire"    the control_change message handed to the output port        *)
(*   "mirror"  a call of mirror_from_partner(ctl, val) on strip key        *)
(* depth is the number of mirror_from_partner frames on the call stack.    *)
(***************************************************************************)
Event(ev, key, ctl, ch, cc, val, depth) ==
    [ev |-> ev, key |-> key, ctl |-> ctl, ch |-> ch, cc |-> cc, val |-> val, depth |-> depth]

Log(w, e) == [w EXCEPT !.trace = Append(@, e)]

\* ch0 = max(0, min(15, channel_1 - 1))
ConfigToWire(channel_1) == Max(0, Min(15, channel_1 - 1))

\* self._outport.send(msg) raised: the exception leaves send_cc and the
\* connected lambda.  PyQt5 from 5.5 on ends the process with qFatal when a
\* slot raises and no sys.excepthook is installed (w.slot_exception =
\* "abort"); an older PyQt5 prints the traceback and goes on with the next
\* slot ("continue").
PortSendRaised(w, key, ctl, ch0, cc, val, depth) ==
    [Log(w, Event("raise", key, ctl, ch0, cc, val, depth))
        EXCEPT !.aborted = (w.slot_exception = "abort")]

\* Variant: send_cc without the two clamps
send_cc_unclamped(w, key, ctl, channel_1, cc, value, depth) ==
    IF ~w.outport THEN Log(w, Event("send", key, ctl, channel_1, cc, value, depth))
    ELSE IF w.port_raises
    THEN PortSendRaised(Log(w, Event("send", key, ctl, channel_1, cc, value, depth)),
                        key, ctl, channel_1 - 1, cc, value, depth)
    ELSE Log(Log(w, Event("send", key, ctl, channel_1, cc, value, depth)),
             Event("wire", key, ctl, channel_1 - 1, cc, value, depth))

\* MidiManager.send_cc
send_cc(w, key, ctl, channel_1, cc, value, depth) ==
    IF ~w.outport THEN Log(w, Event("send", key, ctl, channel_1, cc, value, depth))
    ELSE IF w.port_raises
    THEN PortSendRaised(Log(w, Event("send", key, ctl, channel_1, cc, value, depth)),
                        key, ctl, ConfigToWire(channel_1), cc,
                        Max(0, Min(127, value)), depth)
    ELSE Log(Log(w, Event("send", key, ctl, channel_1, cc, value, depth)),
             Event("wire", key, ctl, ConfigToWire(channel_1), cc,
                   Max(0, Min(127, value)), depth))

RECURSIVE RunSlots(_, _, _, _, _)

\* QSlider.setValue on the fader's slider, then FaderWithScale._on_value_changed
SliderSetValue(w, key, v, blocked, depth) ==
    LET s == w.strips[key]
        hi == IF s.is_master THEN MASTER_UI_MAX_CC ELSE 127
        nv == Max(0, Min(hi, v))
        w1 == [w EXCEPT !.strips[key].fader = nv]
        midi_value == IF s.is_master THEN Min(nv, MASTER_ZERO_DB_CC) ELSE nv
    IN  IF nv = s.fader THEN w
        ELSE IF blocked THEN w1
        ELSE RunSlots(w1, key, s.fader_vc, midi_value, depth)

\* Variant: every fader, the master's too, is clamped to 0..127
FaderSetValueMidiRange(w, key, v, depth) ==
    SliderSetValue(w, key, Max(0, Min(127, v)), TRUE, depth)

\* FaderWithScale.setValue
FaderSetValue(w, key, v, depth) ==
    LET hi == IF w.strips[key].is_master THEN MASTER_UI_MAX_CC ELSE 127
    IN  SliderSetValue(w, key, Max(0, Min(hi, v)), TRUE, depth)

\* QDial.setValue on the pan dial (range 0..127)
DialSetValue(w, key, v, blocked, depth) ==
    LET s == w.strips[key]
        nv == Max(0, Min(127, v))
        w1 == [w EXCEPT !.strips[key].pan = nv]
    IN  IF nv = s.pan THEN w
        ELSE IF blocked THEN w1
        ELSE RunSlots(w1, key, s.pan_vc, nv, depth)

\* QPushButton.setChecked on the mute button
ButtonSetChecked(w, key, on, blocked, depth) ==
    LET s == w.strips[key]
        w1 == [w EXCEPT !.strips[key].mute = on]
    IN  IF on = s.mute THEN w
        ELSE IF blocked THEN w1
        ELSE RunSlots(w1, key, s.toggled, on, depth)

\* MuteButton.set_from_cc
set_from_cc(w, key, value, depth) == ButtonSetChecked(w, key, value >= 64, TRUE, depth)

\* Variant: toggledCC carries the state as a bit, 1 or 0
MuteOnToggledAsBit(w, key, on, depth) ==
    RunSlots(w, key, w.strips[key].toggledCC, IF on THEN 1 ELSE 0, depth)

\* MuteButton._on_toggled
MuteOnToggled(w, key, on, depth) ==
    RunSlots(w, key, w.strips[key].toggledCC, IF on THEN 127 ELSE 0, depth)

\* ChannelStrip.mirror_from_partner
mirror_from_partner(w, key, control_type, value, depth) ==
    LET s == w.strips[key]
        w1 == Log(w, Event("mirror", key, control_type, 0, 0, value, depth))
    IN  IF control_type = "fader" THEN FaderSetValue(w1, key, value, depth)
        ELSE IF control_type = "pan" /\ s.has_pan THEN DialSetValue(w1, key, value, TRUE, depth)
        ELSE IF control_type = "mute" /\ s.has_mute THEN set_from_cc(w1, key, value, depth)
        ELSE w1

\* ChannelStrip.sync_to_partner
sync_to_partner(w, key, control_type, value, depth) ==
    LET s == w.strips[key]
    IN  IF s.stereo_partner_strip # 0
        THEN mirror_from_partner(w, <<key[1], s.stereo_partner_strip>>, control_type, value, depth + 1)
        ELSE w

\* One connected slot called with the signal's argument
CallSlot(w, key, slot, v, depth) ==
    CASE slot.f = "send_cc" -> send_cc(w, key, slot.ctl, slot.midi_channel, slot.cc_number, v, depth)
      [] slot.f = "sync_to_partner" -> sync_to_partner(w, key, slot.ctl, v, depth)
      [] slot.f = "_on_toggled" -> MuteOnToggled(w, key, v, depth)
      [] OTHER -> w

\* A signal's emission: its slots run in connection order
RunSlots(w, key, slots, v, depth) ==
    IF slots = <<>> \/ w.aborted THEN w
    ELSE RunSlots(CallSlot(w, key, Head(slots), v, depth), key, Tail(slots), v, depth)

\* ChannelStrip.set_fader_value / set_pan_value / set_mute_value
set_fader_value(w, key, val) == FaderSetValue(w, key, val, 0)

set_pan_value(w, key, val) ==
    IF w.strips[key].has_pan THEN DialSetValue(w, key, val, FALSE, 0) ELSE w

set_mute_value(w, key, on) ==
    IF w.strips[key].has_mute THEN ButtonSetChecked(w, key, on, FALSE, 0) ELSE w

(***************************************************************************)
(* MixerWindow._wire_strip_controls                                        *)
(***************************************************************************)
\* signal.connect(slot)
Connect(s, sig, slot) == [s EXCEPT ![sig] = Append(@, slot)]

\* The three try/except blocks that disconnect the old slots.
\* signal.disconnect() raises when the signal has no connection, which
\* leaves the rest of its try block undone.
DisconnectFader(s) == [s EXCEPT !.fader_vc = <<>>]

DisconnectMute(s) ==
    IF ~s.has_mute \/ s.toggledCC = <<>> THEN s
    ELSE [s EXCEPT !.toggledCC = <<>>, !.toggled = <<>>]

DisconnectPan(s) ==
    IF ~s.has_pan \/ s.pan_vc = <<>> THEN s
    ELSE [s EXCEPT !.pan_vc = <<>>]

Disconnected(s) == DisconnectPan(DisconnectMute(DisconnectFader(s)))

\* Variant: the sync lambda is left out of the linked-pair branch
ConnectMappedNoSync(s, sig, section, number, t, withSync) ==
    LET k == <<section, number, t>>
    IN  IF ~DictHas(mappings, k) THEN s
        ELSE Connect(s, sig, SendSlot(DictGet(mappings, k)))

\* Variant: the sync lambda is connected before the send_cc lambda
ConnectMappedSyncFirst(s, sig, section, number, t, withSync) ==
    LET k == <<section, number, t>>
        send == SendSlot(DictGet(mappings, k))
    IN  IF ~DictHas(mappings, k) THEN s
        ELSE IF withSync THEN Connect(Connect(s, sig, SyncSlot(t)), sig, send)
        ELSE Connect(s, sig, send)

\* Variant: a control without a mapping sends on a default address
ConnectMappedDefault(s, sig, section, number, t, withSync) ==
    LET k == <<section, number, t>>
        send == IF DictHas(mappings, k) THEN SendSlot(DictGet(mappings, k))
                ELSE Slot("send_cc", 1, 0, t)
    IN  IF withSync THEN Connect(Connect(s, sig, send), sig, SyncSlot(t))
        ELSE Connect(s, sig, send)

\* mapping = self.mappings.get((section, number, t)); if mapping: connect the
\* send_cc lambda to the signal, followed by the sync lambda when withSync
ConnectMapped(s, sig, section, number, t, withSync) ==
    LET k == <<section, number, t>>
        send == SendSlot(DictGet(mappings, k))
    IN  IF ~DictHas(mappings, k) THEN s
        ELSE IF withSync THEN Connect(Connect(s, sig, send), sig, SyncSlot(t))
        ELSE Connect(s, sig, send)

\* The connections of one branch: the fader, then the mute, then the pan
WireFader(s, section, number, withSync) ==
    ConnectMapped(s, "fader_vc", section, number, "fader", withSync)

WireMute(s, section, number, withSync) ==
    IF ~s.has_mute THEN s
    ELSE ConnectMapped(Connect(s, "toggled", OnToggledSlot),
                       "toggledCC", section, number, "mute", withSync)

WirePan(s, section, number, withSync) ==
    IF ~s.has_pan THEN s
    ELSE ConnectMapped(Connect(s, "pan_vc", OnPanChangedSlot),
                       "pan_vc", section, number, "pan", withSync)

WiredWith(s, section, number, withSync) ==
    WirePan(WireMute(WireFader(s, section, number, withSync),
                     section, number, withSync),
            section, number, withSync)

\* Variant: a linked strip is wired with the mapping of its own number
WiredStripOwnMapping(w, section, number, strip) ==
    LET wide == strip.cls = "WideStereoStrip"
        linked == /\ ~wide
                  /\ strip.is_stereo_pair
                  /\ strip.stereo_partner_strip # 0
                  /\ w.settings_mode = "linked_pair"
    IN  WiredWith(Disconnected(strip), section,
                  IF wide THEN strip.left_num ELSE number, linked)

\* Variant: a wide strip is wired with its right member's mappings
WiredStripRightMapping(w, section, number, strip) ==
    LET key == KeyOf(section, number)
        left_key == IF is_stereo_left(key) THEN key ELSE get_stereo_partner(key)
        left == ParseSectionAndNumber(left_key)
        wide == strip.cls = "WideStereoStrip"
        linked == /\ ~wide
                  /\ strip.is_stereo_pair
                  /\ strip.stereo_partner_strip # 0
                  /\ w.settings_mode = "linked_pair"
    IN  IF linked /\ left_key = NoKey THEN Disconnected(strip)
        ELSE WiredWith(Disconnected(strip),
                       IF linked THEN left[1] ELSE section,
                       IF wide THEN strip.right_num ELSE IF linked THEN left[2] ELSE number,
                       linked)

WiredStrip(w, section, number, strip) ==
    LET key == KeyOf(section, number)
        left_key == IF is_stereo_left(key) THEN key ELSE get_stereo_partner(key)
        left == ParseSectionAndNumber(left_key)
        wide == strip.cls = "WideStereoStrip"
        linked == /\ ~wide
                  /\ strip.is_stereo_pair
                  /\ strip.stereo_partner_strip # 0
                  /\ w.settings_mode = "linked_pair"
    IN  IF linked /\ left_key = NoKey THEN Disconnected(strip)
        ELSE WiredWith(Disconnected(strip),
                       IF linked THEN left[1] ELSE section,
                       IF wide THEN strip.left_num ELSE IF linked THEN left[2] ELSE number,
                       linked)

wire_strip_controls(w, section, number) ==
    [w EXCEPT !.strips[<<section, number>>] = WiredStrip(w, section, number, @)]

(***************************************************************************)
(* MixerWindow._build_rows                                                 *)
(***************************************************************************)
\* A new strip is put into its widget dict and wired at once
AddStrip(w, section, number, strip) ==
    wire_strip_controls([w EXCEPT !.strips = Put(@, <<section, number>>, strip)], section, number)

\* The strip the loop makes for number n: a wide strip or the left strip of
\* a pair, or a mono strip
FirstStrip(mode, is_pair, include_pan, n, partner_num) ==
    IF is_pair /\ mode = "wide_fader"
    THEN NewWideStereoStrip(include_pan, TRUE, n, partner_num)
    ELSE NewChannelStrip(include_pan, TRUE, FALSE, is_pair, IF is_pair THEN partner_num ELSE 0)

\* The right strip of a pair follows its left strip in linked-pair mode
AddRightStrip(w, section, n, partner_num, is_pair, include_pan) ==
    IF is_pair /\ w.settings_mode # "wide_fader"
    THEN AddStrip(w, section, partner_num,
                  NewChannelStrip(include_pan, TRUE, FALSE, TRUE, n))
    ELSE w

\* The while loop of one row: add_channel_row's loop, the bus loop and the
\* aux loop are the same code over channel_widgets, bus_widgets, aux_widgets.
\* The result is <<w, n>>, n the first number the row did not reach.
RECURSIVE RowLoop(_, _, _, _, _, _, _)
RowLoop(w, section, n, end, strips_added, limit, include_pan) ==
    IF ~(n <= end /\ strips_added < limit) THEN <<w, n>>
    ELSE LET scribble_key == KeyOf(section, n)
             partner_key == get_stereo_partner(scribble_key)
             partner_num == IF partner_key # NoKey THEN partner_key[2] ELSE 0
             is_pair == is_stereo_pair(scribble_key)
         IN  IF is_pair /\ ~is_stereo_left(scribble_key)
             THEN RowLoop(w, section, n + 1, end, strips_added, limit, include_pan)
             ELSE RowLoop(AddRightStrip(
                              AddStrip(w, section, n,
                                       FirstStrip(w.settings_mode, is_pair, include_pan,
                                                  n, partner_num)),
                              section, n, partner_num, is_pair, include_pan),
                          section, n + (IF is_pair THEN 2 ELSE 1), end,
                          strips_added + (IF is_pair THEN 2 ELSE 1), limit, include_pan)

\* The master strip closes the first channel row
AddMasterStrip(r, include_master) ==
    IF include_master
    THEN <<AddStrip(r[1], "master", 1, NewChannelStrip(FALSE, FALSE, TRUE, FALSE, 0)), r[2]>>
    ELSE r

\* add_channel_row(start, end, include_pan=True, include_master)
add_channel_row(w, start, end, include_master) ==
    AddMasterStrip(RowLoop(w, "channel", start, end, 0, ROW_STRIP_LIMIT, TRUE), include_master)

\* A further channel row, when the rows before it left channels over
NextChannelRow(r) ==
    IF r[2] <= ChannelMax THEN add_channel_row(r[1], r[2], ChannelMax, FALSE) ELSE r

\* A process that qFatal has ended builds nothing
build_rows(w) ==
    IF w.aborted THEN w
    ELSE RowLoop(RowLoop(NextChannelRow(NextChannelRow(add_channel_row(w, 1, ChannelMax, TRUE)))[1],
                         "bus", 1, BusMax, 0, ROW_STRIP_LIMIT, FALSE)[1],
                 "aux", 1, AuxMax, 0, AUX_STRIP_LIMIT, FALSE)[1]

\* The strips in the order the handlers walk them: channel_widgets, then
\* bus_widgets, then aux_widgets (each in insertion order, which is by
\* ascending number), then master_widget
RECURSIVE KeysFrom(_, _, _, _)
KeysFrom(strips, section, n, maxNum) ==
    IF n > maxNum THEN <<>>
    ELSE (IF <<section, n>> \in DOMAIN strips THEN <<(<<section, n>>)>> ELSE <<>>)
         \o KeysFrom(strips, section, n + 1, maxNum)

StripOrder(strips) ==
    KeysFrom(strips, "channel", 1, ChannelMax) \o KeysFrom(strips, "bus", 1, BusMax)
    \o KeysFrom(strips, "aux", 1, AuxMax) \o KeysFrom(strips, "master", 1, 1)

\* The strip loops of _setup_stereo_pairs
RECURSIVE SetupPairsLoop(_, _, _)
SetupPairsLoop(w, keys, i) ==
    IF i > Len(keys) THEN w
    ELSE LET k == keys[i]
             s == w.strips[k]
         IN  SetupPairsLoop(
                 IF /\ k[1] # "master"
                    /\ s.is_stereo_pair
                    /\ s.stereo_partner_num # 0
                    /\ <<k[1], s.stereo_partner_num>> \in DOMAIN w.strips
                 THEN [w EXCEPT !.strips[k].stereo_partner_strip = s.stereo_partner_num]
                 ELSE w,
                 keys, i + 1)

setup_stereo_pairs(w) ==
    IF w.settings_mode # "linked_pair" THEN w
    ELSE SetupPairsLoop(w, StripOrder(w.strips), 1)

RECURSIVE RewireLoop(_, _, _)
RewireLoop(w, keys, i) ==
    IF i > Len(keys) THEN w
    ELSE RewireLoop(wire_strip_controls(w, keys[i][1], keys[i][2]), keys, i + 1)

rewire_all_controls(w) == RewireLoop(w, StripOrder(w.strips), 1)

(***************************************************************************)
(* Display-mode controller: capture, restore, rebuild, the two triggers    *)
(***************************************************************************)
EmptyDict == [k \in {} |-> 0]

\* MixerWindow._capture_current_state
capture_current_state(w) ==
    [w EXCEPT !.saved =
        [faders |-> [k \in DOMAIN w.strips |-> get_fader_value(w.strips[k])],
         pans   |-> [k \in DOMAIN w.strips |-> get_pan_value(w.strips[k])],
         mutes  |-> [k \in DOMAIN w.strips |-> get_mute_value(w.strips[k])]]]

\* One strip of _restore_saved_state: strip.fader.setValue(value),
\* strip.pan.setValue(value), strip.mute.setChecked(value)
RestoreFader(w, k) ==
    IF k \in DOMAIN w.saved.faders
    THEN FaderSetValue(w, k, w.saved.faders[k], 0) ELSE w

RestorePan(w, k) ==
    IF k \in DOMAIN w.saved.pans /\ w.strips[k].has_pan /\ ~w.aborted
    THEN DialSetValue(w, k, w.saved.pans[k], FALSE, 0) ELSE w

RestoreMute(w, k) ==
    IF k \in DOMAIN w.saved.mutes /\ w.strips[k].has_mute /\ ~w.aborted
    THEN ButtonSetChecked(w, k, w.saved.mutes[k], FALSE, 0) ELSE w

RestoreStrip(w, k) == RestoreMute(RestorePan(RestoreFader(w, k), k), k)

RECURSIVE RestoreLoop(_, _, _)
RestoreLoop(w, keys, i) ==
    IF i > Len(keys) \/ w.aborted THEN w
    ELSE RestoreLoop(RestoreStrip(w, keys[i]), keys, i + 1)

\* MixerWindow._restore_saved_state
restore_saved_state(w) == RestoreLoop(w, StripOrder(w.strips), 1)

\* MixerWindow._rebuild_interface.  reenter names the point of the body at
\* which a nested call of _rebuild_interface arrives ("none": no nested
\* call); level is the number of _rebuild_interface frames below this one.
\* The steps the body takes are logged in w.trace with their level.
RECURSIVE rebuild_interface(_, _, _)

\* The body below the guard: the flag is set, the try block runs, and the
\* finally block resets the flag
\* A step of the body is logged; after it the nested call arrives, if this
\* is its point
RebuildStep(x, name, reenter, level) ==
    IF reenter = "after_" \o name
    THEN rebuild_interface(Log(x, Event(name, NoKey, "", 0, 0, 0, level)), "none", level + 1)
    ELSE Log(x, Event(name, NoKey, "", 0, 0, 0, level))

RebuildGuarded(w) == [w EXCEPT !.rebuilding = TRUE]

RebuildClear(w) == [w EXCEPT !.strips = EmptyDict]

\* Variant: no finally block, the flag is left as the try block left it
RebuildFinallyKeepsFlag(w) == w

RebuildFinally(w) == IF w.aborted THEN w ELSE [w EXCEPT !.rebuilding = FALSE]

RebuildTry(w, reenter, level) ==
    restore_saved_state(
        RebuildStep(
            rewire_all_controls(setup_stereo_pairs(build_rows(
                RebuildStep(
                    RebuildClear(
                        RebuildStep(capture_current_state(w), "capture", reenter, level)),
                    "clear", reenter, level)))),
            "build", reenter, level))

RebuildBody(w, reenter, level) ==
    RebuildFinally(RebuildTry(RebuildGuarded(w), reenter, level))

\* Variant: the body without the guard on _rebuilding_interface
rebuild_interface_unguarded(w, reenter, level) == RebuildBody(w, reenter, level)

rebuild_interface(w, reenter, level) ==
    IF w.rebuilding THEN w ELSE RebuildBody(w, reenter, level)

\* MixerWindow._on_stereo_checkbox_changed
on_stereo_checkbox_changed(w, checked, reenter) ==
    LET new_mode == IF checked THEN "wide_fader" ELSE "linked_pair"
    IN  rebuild_interface([w EXCEPT !.settings_mode = new_mode,
                                    !.stereo_display_action = checked],
                          reenter, 0)

\* MixerWindow._toggle_stereo_display_mode
toggle_stereo_display_mode(w) ==
    LET new_mode == IF w.settings_mode = "linked_pair" THEN "wide_fader" ELSE "linked_pair"
    IN  [w EXCEPT !.settings_mode = new_mode,
                  !.stereo_checkbox = (new_mode = "wide_fader")]

(***************************************************************************)
(* Control router, inbound: MixerWindow.on_midi_cc                         *)
(***************************************************************************)
\* Variant: a key without a strip falls back to the first strip of the row
ResolveStripFallback(w, section, number) ==
    IF <<section, number>> \in DOMAIN w.strips THEN <<section, number>>
    ELSE IF <<section, 1>> \in DOMAIN w.strips THEN <<section, 1>>
    ELSE NoKey

\* The strip an inbound key is applied to, NoKey for None
ResolveStrip(w, section, number) ==
    LET own == <<section, number>>
        channel_key == KeyOf("channel", number)
        left_channel_key == get_stereo_partner(channel_key)
        left == <<section, left_channel_key[2]>>
    IN  IF section = "channel"
        THEN IF own \in DOMAIN w.strips THEN own
             ELSE IF /\ is_stereo_right(channel_key)
                     /\ left_channel_key # NoKey
                     /\ left \in DOMAIN w.strips
             THEN left
             ELSE NoKey
        ELSE IF section \in {"bus", "aux", "master"}
        THEN IF own \in DOMAIN w.strips THEN own ELSE NoKey
        ELSE NoKey

\* key = self._rev_index.get((channel_1, cc)): NoMapKey stands for None
NoMapKey == <<"", 0, "">>

InboundKey(channel_1, cc) ==
    IF DictHas(rev_index, <<channel_1, cc>>) THEN DictGet(rev_index, <<channel_1, cc>>)
    ELSE NoMapKey

on_midi_cc(w, channel_1, cc, value) ==
    LET key == InboundKey(channel_1, cc)
        strip == ResolveStrip(w, key[1], key[2])
        typ == key[3]
    IN  IF key = NoMapKey THEN w
        ELSE IF strip = NoKey THEN w
        ELSE IF typ = "fader" THEN set_fader_value(w, strip, value)
        ELSE IF typ = "mute" THEN set_mute_value(w, strip, value >= 64)
        ELSE IF typ = "pan" THEN set_pan_value(w, strip, value)
        ELSE w

\* Variant: the wire channel is looked up as it stands, as in DM4800v013.py
WireToConfigSame(channel) == channel

\* msg.channel + 1: the wire channel is 0-based
WireToConfig(channel) == channel + 1

\* MidiManager._mido_callback
mido_callback(w, channel, control, value) ==
    on_midi_cc(w, WireToConfig(channel), control, value)

(***************************************************************************)
(* State                                                                   *)
(***************************************************************************)
VARIABLES
    settings_mode,          \* settings['stereo_display_mode']
    stereo_checkbox,        \* the zoom row's check box is checked
    stereo_display_action,  \* the Settings menu action is checked
    strips,                 \* the widget dicts and master_widget
    saved,                  \* _saved_control_state
    rebuilding,             \* _rebuilding_interface
    outport,                \* MidiManager._outport is open
    trace,                  \* the log of the last handler
    lastOp,                 \* the last handler and its inputs
    pre,                    \* every strip's values before the last handler
    before_toggles,         \* the values before the last two rebuilds, when
                            \* the last two handlers were both rebuilds
    steps,                  \* handlers run so far
    port_raises,            \* the output port's send raises
    slot_exception,         \* what PyQt5 does when a slot raises
    aborted,                \* the process was ended by qFatal
    mono_stereo_csv,        \* the rows of DM4800MonoStereo.csv
    mono_stereo_data,       \* MonoStereoManager.mono_stereo_data
    registry_pairs,         \* MonoStereoManager.stereo_pairs
    csv_rows,               \* the rows of DM4800_CC_Values.csv
    window_mappings,        \* MixerWindow.mappings
    window_rev_index,       \* MixerWindow._rev_index
    parse_input,            \* the string handed to parse_section_and_number
    parse_result,           \* what parse_section_and_number did with it
    csv_text,               \* the rows of DM4800_CC_Values.csv as text
    load_pc                 \* how far the configuration is loaded

windowVars == <<settings_mode, stereo_checkbox, stereo_display_action, strips, saved,
                rebuilding, outport, trace, lastOp, pre, before_toggles, steps,
                port_raises, slot_exception, aborted>>

registryVars == <<mono_stereo_csv, mono_stereo_data, registry_pairs>>

mappingVars == <<csv_rows, window_mappings, window_rev_index>>

textVars == <<parse_input, parse_result, csv_text>>

vars == <<windowVars, registryVars, mappingVars, textVars, load_pc>>

Window ==
    [settings_mode |-> settings_mode, stereo_checkbox |-> stereo_checkbox,
     stereo_display_action |-> stereo_display_action, strips |-> strips,
     saved |-> saved, rebuilding |-> rebuilding, outport |-> outport, trace |-> <<>>,
     port_raises |-> port_raises, slot_exception |-> slot_exception, aborted |-> aborted]

\* The values a strip shows: get_fader_value, get_pan_value, get_mute_value
Values(ss) ==
    [k \in DOMAIN ss |-> [fader |-> get_fader_value(ss[k]), pan |-> get_pan_value(ss[k]),
                          mute |-> get_mute_value(ss[k])]]

\* The display mode the present strips were built for
BuiltMode(ss) ==
    IF \E k \in DOMAIN ss : ss[k].cls = "WideStereoStrip" THEN "wide_fader" ELSE "linked_pair"

Op(op, key, ctl, val, ch, cc, reenter) ==
    [op |-> op, key |-> key, ctl |-> ctl, val |-> val, ch |-> ch, cc |-> cc,
     reenter |-> reenter, built |-> BuiltMode(strips)]

NoSnap == [built |-> "", mid |-> "", vals |-> EmptyDict]

\* The handler's result r becomes the next state
Becomes(r, op) ==
    /\ ~aborted
    /\ load_pc = "done"
    /\ port_raises' = r.port_raises
    /\ slot_exception' = r.slot_exception
    /\ aborted' = r.aborted
    /\ UNCHANGED <<registryVars, mappingVars, textVars, load_pc>>
    /\ settings_mode' = r.settings_mode
    /\ stereo_checkbox' = r.stereo_checkbox
    /\ stereo_display_action' = r.stereo_display_action
    /\ strips' = r.strips
    /\ saved' = r.saved
    /\ rebuilding' = r.rebuilding
    /\ outport' = r.outport
    /\ trace' = r.trace
    /\ lastOp' = op
    /\ pre' = Values(strips)
    /\ before_toggles' =
          IF op.op = "checkbox" /\ lastOp.op = "checkbox"
          THEN [built |-> lastOp.built, mid |-> BuiltMode(strips), vals |-> pre]
          ELSE NoSnap
    /\ steps' = steps + 1

\* SettingsManager.load_settings: the mode of a fresh settings file
DefaultMode == "linked_pair"

\* MixerWindow.__init__: the strips are built, linked and wired for the mode
\* of the settings
Constructed(mode) ==
    rewire_all_controls(setup_stereo_pairs(build_rows(
        [settings_mode |-> mode, stereo_checkbox |-> (mode = "wide_fader"),
         stereo_display_action |-> (mode = "wide_fader"), strips |-> EmptyDict,
         saved |-> [faders |-> EmptyDict, pans |-> EmptyDict, mutes |-> EmptyDict],
         rebuilding |-> FALSE, outport |-> TRUE, trace |-> <<>>,
         port_raises |-> FALSE, slot_exception |-> "abort", aborted |-> FALSE])))

\* The window after MixerWindow.__init__, its output port open and sound
WindowInit ==
    \E mode \in {DefaultMode} :
        \E w \in {Constructed(mode)} :
            /\ port_raises = w.port_raises
            /\ slot_exception = w.slot_exception
            /\ aborted = w.aborted
            /\ settings_mode = w.settings_mode
            /\ stereo_checkbox = w.stereo_checkbox
            /\ stereo_display_action = w.stereo_display_action
            /\ strips = w.strips
            /\ saved = w.saved
            /\ rebuilding = w.rebuilding
            /\ outport = w.outport
            /\ trace = <<>>
            /\ lastOp = [op |-> "init", key |-> NoKey, ctl |-> "", val |-> 0, ch |-> 0,
                         cc |-> 0, reenter |-> "none", built |-> mode]
            /\ pre = Values(w.strips)
            /\ before_toggles = NoSnap
            /\ steps = 0

\* No string is being parsed and no table text is being read
TextUnused ==
    /\ parse_input = <<>>
    /\ parse_result = NoResult
    /\ csv_text = <<>>

\* The configuration the window was constructed from
ConfigLoaded ==
    /\ mono_stereo_csv = MonoStereoData
    /\ mono_stereo_data = LoadedMonoStereoData(MonoStereoData)
    /\ registry_pairs = stereo_pairs
    /\ csv_rows = MappingRows
    /\ window_mappings = mappings
    /\ window_rev_index = rev_index
    /\ TextUnused
    /\ load_pc = "done"

Init == WindowInit /\ ConfigLoaded

(***************************************************************************)
(* Inputs                                                                  *)
(***************************************************************************)
\* Where the user drags a fader to; the master slider goes up to 140
UserFaderValues(s) == IF s.is_master THEN {MASTER_UI_MAX_CC} ELSE {20}

UserPanValues == {20}

\* The values the hardware sends: below and above the mute threshold of 64
InboundValues(typ) == IF typ = "mute" THEN {10, 127} ELSE {10}

\* The wire addresses the hardware sends on: every mapped one, and one that
\* no row of the table names
InboundAddresses ==
    {a \in {<<mappings[i][2].midi_channel - 1, mappings[i][2].cc_number>> :
                i \in 1..Len(mappings)} : a[1] \in 0..15}
    \cup {<<0, 99>>}

ReenterPoints == {"none", "after_clear", "after_build"}

(***************************************************************************)
(* Actions: one per handler                                                *)
(***************************************************************************)
\* The user drags the fader of a strip: the slider's value changes
LocalFader ==
    \E k \in DOMAIN strips : \E v \in UserFaderValues(strips[k]) :
        /\ steps < MaxSteps
        /\ v # strips[k].fader
        /\ Becomes(SliderSetValue(Window, k, v, FALSE, 0), Op("local", k, "fader", v, 0, 0, "none"))

\* The user turns the pan dial of a strip
LocalPan ==
    \E k \in DOMAIN strips : \E v \in UserPanValues :
        /\ steps < MaxSteps
        /\ strips[k].has_pan
        /\ v # strips[k].pan
        /\ Becomes(DialSetValue(Window, k, v, FALSE, 0), Op("local", k, "pan", v, 0, 0, "none"))

\* The user clicks the mute button of a strip
LocalMute ==
    \E k \in DOMAIN strips :
        /\ steps < MaxSteps
        /\ strips[k].has_mute
        /\ Becomes(ButtonSetChecked(Window, k, ~strips[k].mute, FALSE, 0),
                   Op("local", k, "mute", IF strips[k].mute THEN 0 ELSE 127, 0, 0, "none"))

\* A control_change message arrives from the hardware
InboundCC ==
    \E a \in InboundAddresses :
        LET hit == DictHas(rev_index, <<a[1] + 1, a[2]>>)
            key == IF hit THEN DictGet(rev_index, <<a[1] + 1, a[2]>>) ELSE <<"", 0, "">>
        IN  \E value \in InboundValues(key[3]) :
            /\ steps < MaxSteps
            /\ Becomes(mido_callback(Window, a[1], a[2], value),
                       Op("inbound", <<key[1], key[2]>>, key[3], value, a[1], a[2], "none"))

\* The user clicks the check box of the zoom row
CheckboxToggle ==
    \E reenter \in ReenterPoints :
        /\ steps < MaxSteps
        /\ Becomes(on_stereo_checkbox_changed(
                       [Window EXCEPT !.stereo_checkbox = ~stereo_checkbox],
                       ~stereo_checkbox, reenter),
                   Op("checkbox", NoKey, "", 0, 0, 0, reenter))

\* The user picks the Settings menu action
MenuToggle ==
    /\ steps < MaxSteps
    /\ Becomes(toggle_stereo_display_mode(
                   [Window EXCEPT !.stereo_display_action = ~stereo_display_action]),
               Op("menu", NoKey, "", 0, 0, 0, "none"))

Next ==
    \/ LocalFader
    \/ LocalPan
    \/ LocalMute
    \/ InboundCC
    \/ CheckboxToggle
    \/ MenuToggle

Spec == Init /\ [][Next]_vars

(***************************************************************************)
(* The setters of a strip, called with any integer                         *)
(***************************************************************************)
MaxSets == 2

\* Below the range, inside it and above the master slider's range
SetterValues == {-5, 64, 200}

\* strip.set_fader_value(v)
SetFaderValue ==
    \E k \in DOMAIN strips : \E v \in SetterValues :
        /\ steps < MaxSets
        /\ Becomes(set_fader_value(Window, k, v), Op("set", k, "fader", v, 0, 0, "none"))

\* strip.set_pan_value(v)
SetPanValue ==
    \E k \in DOMAIN strips : \E v \in SetterValues :
        /\ steps < MaxSets
        /\ Becomes(set_pan_value(Window, k, v), Op("set", k, "pan", v, 0, 0, "none"))

SetterNext ==
    \/ SetFaderValue
    \/ SetPanValue
    \/ (steps < MaxSets /\ LocalFader)

SetterSpec == Init /\ [][SetterNext]_vars

(***************************************************************************)
(* The window with an output port whose send starts to raise               *)
(***************************************************************************)
\* What PyQt5 does with an exception that leaves a slot: qFatal from 5.5 on
\* (no sys.excepthook is installed), traceback and go on before
SlotExceptionOutcomes == {"abort", "continue"}

\* The device behind the open output port goes away: from now on
\* self._outport.send raises.  Which PyQt5 runs the program shows only now.
PortBreaks ==
    /\ ~aborted
    /\ ~port_raises
    /\ outport
    /\ port_raises' = TRUE
    /\ slot_exception' \in SlotExceptionOutcomes
    /\ UNCHANGED <<settings_mode, stereo_checkbox, stereo_display_action, strips, saved,
                   rebuilding, outport, trace, lastOp, pre, before_toggles, steps, aborted,
                   registryVars, mappingVars, textVars, load_pc>>

FaultNext ==
    \/ Next
    \/ PortBreaks

FaultSpec == Init /\ [][FaultNext]_vars

(***************************************************************************)
(* Loading the configuration, before the window is built                   *)
(***************************************************************************)
\* No window yet: every field at its value before MixerWindow.__init__
WindowUnbuilt ==
    /\ settings_mode = DefaultMode
    /\ stereo_checkbox = FALSE
    /\ stereo_display_action = FALSE
    /\ strips = EmptyDict
    /\ saved = [faders |-> EmptyDict, pans |-> EmptyDict, mutes |-> EmptyDict]
    /\ rebuilding = FALSE
    /\ outport = FALSE
    /\ trace = <<>>
    /\ lastOp = [op |-> "init", key |-> NoKey, ctl |-> "", val |-> 0, ch |-> 0,
                 cc |-> 0, reenter |-> "none", built |-> ""]
    /\ pre = EmptyDict
    /\ before_toggles = NoSnap
    /\ steps = 0
    /\ port_raises = FALSE
    /\ slot_exception = "abort"
    /\ aborted = FALSE

\* The tags a row of DM4800MonoStereo.csv may carry: any spelling on the odd
\* keys, which decide, and on every key a row may be missing
OddTags == {"Stereo", "STEREO", "Mono", NoRow}

EvenTags == {"Stereo", "Mono"}

MonoStereoFiles ==
    {f \in [RegistryKeys -> OddTags \cup EvenTags] :
        \A k \in RegistryKeys : k[2] % 2 = 0 => f[k] \in EvenTags}

\* MonoStereoManager.__init__ before load_mono_stereo_data
RegistryInit ==
    /\ WindowUnbuilt
    /\ mono_stereo_csv \in MonoStereoFiles
    /\ mono_stereo_data = EmptyDict
    /\ registry_pairs = EmptyDict
    /\ csv_rows = MappingRows
    /\ window_mappings = <<>>
    /\ window_rev_index = <<>>
    /\ TextUnused
    /\ load_pc = "start"

\* MonoStereoManager.load_mono_stereo_data, _detect_stereo_pairs included
LoadMonoStereoData ==
    /\ load_pc = "start"
    /\ mono_stereo_data' = LoadedMonoStereoData(mono_stereo_csv)
    /\ registry_pairs' = DetectStereoPairs(LoadedMonoStereoData(mono_stereo_csv))
    /\ load_pc' = "done"
    /\ UNCHANGED <<windowVars, mappingVars, textVars, mono_stereo_csv>>

RegistryNext == LoadMonoStereoData

RegistrySpec == RegistryInit /\ [][RegistryNext]_vars

\* The rows a DM4800_CC_Values.csv of the model may hold
MaxRows == 3

RowUniverse ==
    [name : {<<"Channel", 1>>, <<"Channel", 2>>}, type : {"Fader", "pan"},
     midi_channel : {1, 2}, cc_number : {10}]

MappingFiles == UNION {[1..n -> RowUniverse] : n \in 0..MaxRows}

\* MixerWindow.__init__ before load_midi_mappings
MappingInit ==
    /\ WindowUnbuilt
    /\ mono_stereo_csv = MonoStereoData
    /\ mono_stereo_data = EmptyDict
    /\ registry_pairs = EmptyDict
    /\ csv_rows \in MappingFiles
    /\ window_mappings = <<>>
    /\ window_rev_index = <<>>
    /\ TextUnused
    /\ load_pc = "start"

\* self.mappings = load_midi_mappings(CSV_FILE)
LoadMidiMappings ==
    /\ load_pc = "start"
    /\ window_mappings' = load_midi_mappings(csv_rows)
    /\ load_pc' = "mapped"
    /\ UNCHANGED <<windowVars, registryVars, textVars, csv_rows, window_rev_index>>

\* The first on_midi_cc builds _rev_index from self.mappings
BuildReverseIndex ==
    /\ load_pc = "mapped"
    /\ window_rev_index' = BuildRevIndex(window_mappings, 1, <<>>)
    /\ load_pc' = "done"
    /\ UNCHANGED <<windowVars, registryVars, textVars, csv_rows, window_mappings>>

MappingNext ==
    \/ LoadMidiMappings
    \/ BuildReverseIndex

MappingSpec == MappingInit /\ [][MappingNext]_vars

(***************************************************************************)
(* parse_section_and_number on any string                                  *)
(***************************************************************************)
MaxTokens == 2

TextTokens == {"Channel", "Bus", "buss", "aux", "Master", "foo", "7", "x"}

TextInputs == UNION {[1..n -> TextTokens] : n \in 0..MaxTokens}

\* Before the call: nothing is loaded, a string is at hand
ParseInit ==
    /\ WindowUnbuilt
    /\ mono_stereo_csv = MonoStereoData
    /\ mono_stereo_data = EmptyDict
    /\ registry_pairs = EmptyDict
    /\ csv_rows = MappingRows
    /\ window_mappings = <<>>
    /\ window_rev_index = <<>>
    /\ parse_input \in TextInputs
    /\ parse_result = NoResult
    /\ csv_text = <<>>
    /\ load_pc = "start"

\* section, number = parse_section_and_number(section_raw)
ParseName ==
    /\ load_pc = "start"
    /\ parse_result' = parse_section_and_number(parse_input)
    /\ load_pc' = "parsed"
    /\ UNCHANGED <<windowVars, registryVars, mappingVars, parse_input, csv_text>>

ParseNext == ParseName

ParseSpec == ParseInit /\ [][ParseNext]_vars

(***************************************************************************)
(* load_midi_mappings on a table whose fields are text                     *)
(***************************************************************************)
MaxTextRows == 2

TextRowUniverse ==
    [name : {<<"Channel", "1">>, <<"Channel", "2">>}, type : {"Fader"},
     midi_channel : {"1", "x", ""}, cc_number : {"7", "x"}]

TextFiles == UNION {[1..n -> TextRowUniverse] : n \in 0..MaxTextRows}

\* MixerWindow.__init__ before load_midi_mappings, the file not yet read
TextLoadInit ==
    /\ WindowUnbuilt
    /\ mono_stereo_csv = MonoStereoData
    /\ mono_stereo_data = EmptyDict
    /\ registry_pairs = EmptyDict
    /\ csv_rows = <<>>
    /\ window_mappings = <<>>
    /\ window_rev_index = <<>>
    /\ parse_input = <<>>
    /\ parse_result = NoResult
    /\ csv_text \in TextFiles
    /\ load_pc = "start"

\* self.mappings = load_midi_mappings(CSV_FILE): the assignment happens
\* only when the call returns
LoadTextMappings ==
    /\ load_pc = "start"
    /\ \E res \in {load_midi_mappings_text(csv_text)} :
          /\ window_mappings' = IF res.raised THEN window_mappings ELSE res.value
          /\ load_pc' = IF res.raised THEN "raised" ELSE "mapped"
    /\ UNCHANGED <<windowVars, registryVars, textVars, csv_rows, window_rev_index>>

TextLoadNext == LoadTextMappings

TextLoadSpec == TextLoadInit /\ [][TextLoadNext]_vars

(***************************************************************************)
(* _build_rows at the console's full size and over any registry: the       *)
(* widget dicts it fills, the strips as constructed, before any wiring     *)
(***************************************************************************)
FULL_CHANNELS == 64

FULL_BUSES == 24

FULL_AUXES == 12

\* MonoStereoManager.stereo_pairs when the keys in lefts are tagged stereo:
\* each left key maps to its right neighbour and back
PairsOf(lefts) ==
    [k \in lefts \cup {<<l[1], l[2] + 1>> : l \in lefts} |->
        IF k \in lefts THEN <<k[1], k[2] + 1>> ELSE <<k[1], k[2] - 1>>]

\* The strip or strips made for the left member n of a pair
PairStrips(sp, mode, ss, section, n, partner_num, include_pan) ==
    IF mode = "wide_fader"
    THEN Put(ss, <<section, n>>, NewWideStereoStrip(include_pan, TRUE, n, partner_num))
    ELSE Put(Put(ss, <<section, n>>, NewChannelStrip(include_pan, TRUE, FALSE, TRUE, partner_num)),
             <<section, partner_num>>, NewChannelStrip(include_pan, TRUE, FALSE, TRUE, n))

\* The while loop of one row over registry sp.  The result is <<ss, n>>, n
\* the first number the row did not reach.
RECURSIVE RowLoopIn(_, _, _, _, _, _, _, _, _)
RowLoopIn(sp, mode, ss, section, n, end, strips_added, limit, include_pan) ==
    IF ~(n <= end /\ strips_added < limit) THEN <<ss, n>>
    ELSE IF ~IsStereoPairIn(sp, KeyOf(section, n))
    THEN RowLoopIn(sp, mode,
                   Put(ss, <<section, n>>, NewChannelStrip(include_pan, TRUE, FALSE, FALSE, 0)),
                   section, n + 1, end, strips_added + 1, limit, include_pan)
    ELSE IF IsStereoLeftIn(sp, KeyOf(section, n))
    THEN RowLoopIn(sp, mode,
                   PairStrips(sp, mode, ss, section, n,
                              StereoPartnerIn(sp, KeyOf(section, n))[2], include_pan),
                   section, n + 2, end, strips_added + 2, limit, include_pan)
    ELSE RowLoopIn(sp, mode, ss, section, n + 1, end, strips_added, limit, include_pan)

\* The build so far: the widget dicts, the channel the next row starts with
\* and the value each add_channel_row returned
NoRows == [strips |-> [k \in {} |-> 0], next |-> 1, ends |-> <<>>]

RowDone(b, r) == [strips |-> r[1], next |-> r[2], ends |-> Append(b.ends, r[2])]

\* add_channel_row(b.next, 64)
FullChannelRow(sp, mode, b) ==
    RowDone(b, RowLoopIn(sp, mode, b.strips, "channel", b.next, FULL_CHANNELS, 0,
                         ROW_STRIP_LIMIT, TRUE))

\* include_master=True of the first row
FullMaster(b) ==
    [b EXCEPT !.strips = Put(@, <<"master", 1>>, NewChannelStrip(FALSE, FALSE, TRUE, FALSE, 0))]

\* if next_ch <= 64: add_channel_row(next_ch, 64)
FullNextChannelRow(sp, mode, b) ==
    IF b.next <= FULL_CHANNELS THEN FullChannelRow(sp, mode, b) ELSE b

\* The bus row and the aux row
FullSectionRow(sp, mode, b, section, end, limit) ==
    [b EXCEPT !.strips = RowLoopIn(sp, mode, b.strips, section, 1, end, 0, limit, FALSE)[1]]

\* Variant: two channel rows instead of three
FullBuildRowsTwoChannelRows(sp, mode) ==
    FullSectionRow(sp, mode,
        FullSectionRow(sp, mode,
            FullNextChannelRow(sp, mode, FullMaster(FullChannelRow(sp, mode, NoRows))),
            "bus", FULL_BUSES, ROW_STRIP_LIMIT),
        "aux", FULL_AUXES, AUX_STRIP_LIMIT)

FullBuildRows(sp, mode) ==
    FullSectionRow(sp, mode,
        FullSectionRow(sp, mode,
            FullNextChannelRow(sp, mode,
                FullNextChannelRow(sp, mode, FullMaster(FullChannelRow(sp, mode, NoRows)))),
            "bus", FULL_BUSES, ROW_STRIP_LIMIT),
        "aux", FULL_AUXES, AUX_STRIP_LIMIT)

\* Every key _detect_stereo_pairs can make a left member
AllLefts ==
    {<<"Channel", i>> : i \in {j \in 1..FULL_CHANNELS : j % 2 = 1}}
    \cup {<<"Bus", i>> : i \in {j \in 1..FULL_BUSES : j % 2 = 1}}
    \cup {<<"Aux", i>> : i \in {j \in 1..FULL_AUXES : j % 2 = 1}}

\* The left members the registries of the model choose from: the first
\* pair of each section and the pairs next to the ends of the rows
CandidateLefts ==
    {<<"Channel", 1>>, <<"Channel", 23>>, <<"Channel", 25>>, <<"Channel", 63>>,
     <<"Bus", 1>>, <<"Bus", 23>>, <<"Aux", 1>>, <<"Aux", 11>>}

Registries == {PairsOf(L) : L \in SUBSET CandidateLefts} \cup {PairsOf(AllLefts)}

\* MixerWindow.__init__ before _build_rows: the registry and the display
\* mode are loaded, no strip exists
FullSizeInit ==
    /\ settings_mode \in {"linked_pair", "wide_fader"}
    /\ stereo_checkbox = (settings_mode = "wide_fader")
    /\ stereo_display_action = (settings_mode = "wide_fader")
    /\ strips = EmptyDict
    /\ saved = [faders |-> EmptyDict, pans |-> EmptyDict, mutes |-> EmptyDict]
    /\ rebuilding = FALSE
    /\ outport = FALSE
    /\ trace = <<>>
    /\ lastOp = [op |-> "init", key |-> NoKey, ctl |-> "", val |-> 0, ch |-> 0,
                 cc |-> 0, reenter |-> "none", built |-> ""]
    /\ pre = EmptyDict
    /\ before_toggles = NoSnap
    /\ steps = 0
    /\ port_raises = FALSE
    /\ slot_exception = "abort"
    /\ aborted = FALSE
    /\ mono_stereo_csv = EmptyDict
    /\ mono_stereo_data = EmptyDict
    /\ registry_pairs \in Registries
    /\ csv_rows = <<>>
    /\ window_mappings = <<>>
    /\ window_rev_index = <<>>
    /\ TextUnused
    /\ load_pc = "start"

\* self._build_rows(): the rows are logged by the channel each one ended at
BuildFullRows ==
    /\ load_pc = "start"
    /\ \E b \in {FullBuildRows(registry_pairs, settings_mode)} :
          /\ strips' = b.strips
          /\ trace' = [i \in 1..Len(b.ends) |->
                          Event("row", <<"channel", b.ends[i]>>, "", 0, 0, 0, 0)]
    /\ load_pc' = "built"
    /\ UNCHANGED <<settings_mode, stereo_checkbox, stereo_display_action, saved, rebuilding,
                   outport, lastOp, pre, before_toggles, steps, port_raises, slot_exception,
                   aborted, registryVars, mappingVars, textVars>>

FullSizeNext == BuildFullRows

FullSizeSpec == FullSizeInit /\ [][FullSizeNext]_vars

(***************************************************************************)
(* Properties                                                              *)
(***************************************************************************)
\* The calls of send_cc, the messages put on the wire and the calls of
\* mirror_from_partner that the last handler made, in order
Sends == SelectSeq(trace, LAMBDA e : e.ev = "send")

Wires == SelectSeq(trace, LAMBDA e : e.ev = "wire")

Mirrors == SelectSeq(trace, LAMBDA e : e.ev = "mirror")

\* Strip key k names a member of a stereo pair of the registry
IsPairMember(k) == is_stereo_pair(KeyOf(k[1], k[2]))

\* The strip keys of the left member and of the partner of pair member k
PairLeft(k) ==
    IF is_stereo_left(KeyOf(k[1], k[2])) THEN k
    ELSE <<k[1], get_stereo_partner(KeyOf(k[1], k[2]))[2]>>

PairPartner(k) == <<k[1], get_stereo_partner(KeyOf(k[1], k[2]))[2]>>

\* The last handler was a user's change of a control of a pair member, made
\* on strips built as linked pairs
LocalOnLinkedMember ==
    /\ lastOp.op = "local"
    /\ lastOp.built = "linked_pair"
    /\ IsPairMember(lastOp.key)

\* Strip k shows the value an inbound message of type typ carried
Shows(k, typ, value) ==
    CASE typ = "fader" -> strips[k].fader = value
      [] typ = "pan" -> strips[k].pan = value
      [] typ = "mute" -> strips[k].mute = (value >= 64)
      [] OTHER -> TRUE

\* C1: an inbound control change that on_midi_cc applies to a strip causes
\* no call of send_cc within its dispatch, whatever the control type, the
\* value and the strip's state.
C1_InboundCausesNoSend ==
    lastOp.op = "inbound" => Len(Sends) = 0

\* C2: in linked-pair mode, after the user sets the fader of a pair's left
\* member (which has a fader mapping) to V, both members' faders are V and
\* exactly one CC was sent, addressed with the left member's mapping.
C2_LeftFaderMirroredSentOnce ==
    LET k == lastOp.key
        mk == <<k[1], k[2], "fader">>
        m == DictGet(mappings, mk)
    IN  (/\ LocalOnLinkedMember
         /\ lastOp.ctl = "fader"
         /\ PairLeft(k) = k
         /\ DictHas(mappings, mk))
        => /\ strips[k].fader = lastOp.val
           /\ strips[PairPartner(k)].fader = lastOp.val
           /\ Len(Sends) = 1
           /\ Sends[1].ch = m.midi_channel /\ Sends[1].cc = m.cc_number
           /\ Sends[1].val = lastOp.val
           /\ Len(Wires) = 1
           /\ Wires[1].ch = m.midi_channel - 1 /\ Wires[1].cc = m.cc_number

C2_Witness ==
    /\ LocalOnLinkedMember
    /\ lastOp.ctl = "fader"
    /\ lastOp.key = <<"channel", 1>>
    /\ strips[<<"channel", 2>>].fader = lastOp.val
    /\ pre[<<"channel", 2>>].fader # lastOp.val
    /\ Len(Sends) = 1

\* C3: rebuilding linked pair -> wide -> linked pair leaves every channel's
\* fader, pan and mute equal to its value before the first rebuild.
C3_RoundTripRestoresValues ==
    (/\ lastOp.op = "checkbox"
     /\ before_toggles.built = "linked_pair"
     /\ before_toggles.mid = "wide_fader"
     /\ BuiltMode(strips) = "linked_pair")
    => Values(strips) = before_toggles.vals

\* C4: in linked-pair mode a local change on either member of a pair is
\* sent with the left member's mapping for that control, and with no other
\* address: the right member's own mapping is never used.
C4_PairSendsUseLeftMapping ==
    LET L == PairLeft(lastOp.key)
        mk == <<L[1], L[2], lastOp.ctl>>
        m == DictGet(mappings, mk)
    IN  LocalOnLinkedMember
        => IF DictHas(mappings, mk)
           THEN /\ Len(Sends) >= 1
                /\ \A i \in 1..Len(Sends) :
                      Sends[i].ch = m.midi_channel /\ Sends[i].cc = m.cc_number
                /\ \A i \in 1..Len(Wires) :
                      Wires[i].ch = m.midi_channel - 1 /\ Wires[i].cc = m.cc_number
           ELSE Len(Sends) = 0 /\ Len(Wires) = 0

C4_Witness ==
    /\ LocalOnLinkedMember
    /\ lastOp.key = <<"channel", 2>>
    /\ lastOp.ctl = "fader"
    /\ DictHas(mappings, <<"channel", 2, "fader">>)
    /\ Len(Sends) = 1
    /\ Sends[1].cc = DictGet(mappings, <<"channel", 1, "fader">>).cc_number

\* C5: in every section with pairs, an inbound CC whose logical channel has
\* no strip of its own and is the right member of a pair is applied to the
\* left partner's strip.
C5_RightKeyAppliedToLeft ==
    (/\ lastOp.op = "inbound"
     /\ lastOp.key[1] \in {"channel", "bus", "aux"}
     /\ lastOp.key \notin DOMAIN strips
     /\ is_stereo_right(KeyOf(lastOp.key[1], lastOp.key[2]))
     /\ PairLeft(lastOp.key) \in DOMAIN strips)
    => Shows(PairLeft(lastOp.key), lastOp.ctl, lastOp.val)

\* C6: in linked-pair mode, after an inbound CC is applied to one member of
\* a pair, the partner holds the same value for that control.
C6_InboundReachesPartner ==
    (/\ lastOp.op = "inbound"
     /\ lastOp.built = "linked_pair"
     /\ lastOp.key \in DOMAIN strips
     /\ IsPairMember(lastOp.key)
     /\ PairPartner(lastOp.key) \in DOMAIN strips)
    => /\ Shows(lastOp.key, lastOp.ctl, lastOp.val)
       /\ Shows(PairPartner(lastOp.key), lastOp.ctl, lastOp.val)

\* C7: in every state between handlers, with the strips built as linked
\* pairs, the two strips of each pair hold equal fader, pan and mute values.
C7_PairMembersAgree ==
    BuiltMode(strips) = "linked_pair"
    => \A k \in DOMAIN strips :
          (IsPairMember(k) /\ PairPartner(k) \in DOMAIN strips)
          => Values(strips)[k] = Values(strips)[PairPartner(k)]

\* A write made by mirror_from_partner has no effect of its own: no call of
\* send_cc and no further mirror_from_partner is made from within one
MirrorDoesNotPropagate ==
    \A i \in 1..Len(trace) :
        /\ trace[i].ev \in {"send", "wire"} => trace[i].depth = 0
        /\ trace[i].ev = "mirror" => trace[i].depth = 1

\* C8: mirroring is one level deep: a value written by mirror_from_partner
\* causes neither a call of send_cc nor a mirror back to the originating
\* strip, so the dispatch of a local change ends after at most one update
\* of the partner.
C8_OneLevelOnePartnerUpdate ==
    lastOp.op = "local"
    => /\ MirrorDoesNotPropagate
       /\ \A i \in 1..Len(Mirrors) : Mirrors[i].key # lastOp.key
       /\ Len(Mirrors) <= 1

\* C9: for a user's change on a member of a pair in linked-pair mode, the
\* CC is handed to the transport before the partner's state is updated,
\* within the one dispatch and with no other event between the two steps.
C9_SendBeforeMirror ==
    LocalOnLinkedMember
    => \A j \in 1..Len(trace) :
          trace[j].ev = "mirror"
          => /\ j >= 3
             /\ trace[j - 2].ev = "send" /\ trace[j - 1].ev = "wire"
             /\ trace[j - 2].key = lastOp.key /\ trace[j - 2].ctl = trace[j].ctl
             /\ trace[j - 2].val = trace[j].val
             /\ trace[j].key = PairPartner(lastOp.key)

C9_Witness ==
    /\ LocalOnLinkedMember
    /\ lastOp.key = <<"channel", 2>>
    /\ lastOp.ctl = "pan"
    /\ Len(Mirrors) = 1
    /\ strips[<<"channel", 1>>].pan = lastOp.val

\* C10: a nested call of _rebuild_interface made while a rebuild is in
\* progress returns at once: it captures nothing, clears nothing and builds
\* nothing, so the saved state and the strips are those the outer rebuild
\* alone produces.
C10_NestedRebuildIgnored ==
    [][(lastOp'.op = "checkbox" /\ lastOp'.reenter # "none")
       => LET alone == on_stereo_checkbox_changed(
                           [Window EXCEPT !.stereo_checkbox = ~stereo_checkbox],
                           ~stereo_checkbox, "none")
          IN  /\ \A i \in 1..Len(trace') :
                    trace'[i].ev \in {"capture", "clear", "build"} => trace'[i].depth = 0
              /\ saved' = alone.saved
              /\ strips' = alone.strips
              /\ trace' = alone.trace
              /\ rebuilding' = FALSE]_vars

C10_Witness ==
    /\ lastOp.op = "checkbox"
    /\ lastOp.reenter = "after_clear"
    /\ Len(SelectSeq(trace, LAMBDA e : e.ev = "capture")) = 1
    /\ DOMAIN saved.faders = DOMAIN pre
    /\ DOMAIN strips # {}

\* C15: an inbound CC whose address has no entry in the reverse index, or
\* whose logical channel has no strip and no left partner strip, leaves the
\* fader, pan and mute of every strip as they were, sends no CC and does not
\* end the program.
C15_UnroutableInboundChangesNothing ==
    LET partner == PairPartner(lastOp.key)
        unmapped == InboundKey(WireToConfig(lastOp.ch), lastOp.cc) = NoMapKey
        no_strip == /\ lastOp.key \notin DOMAIN strips
                    /\ ~(IsPairMember(lastOp.key) /\ partner \in DOMAIN strips)
    IN  (lastOp.op = "inbound" /\ (unmapped \/ no_strip))
        => /\ Values(strips) = pre
           /\ Len(Sends) = 0
           /\ ~aborted

\* An inbound CC for Channel 9, which has no strip, arrived after a strip
\* had been moved off its initial value
C15_Witness ==
    /\ lastOp.op = "inbound"
    /\ lastOp.key = <<"channel", 9>>
    /\ lastOp.key \notin DOMAIN strips
    /\ \E k \in DOMAIN strips : strips[k].fader = 20
    /\ Values(strips) = pre

\* The key whose mapping a local change on strip k sends with: the left
\* member's for a member of a linked pair, its own for a mono strip
ForwardKey(k) ==
    IF lastOp.built = "linked_pair" /\ IsPairMember(k) THEN PairLeft(k) ELSE k

\* C16: a local change to a control of a mono strip or of a linked pair
\* member whose forward key has no mapping sends no CC and does not end the
\* program, and the strip shows the new value.
C16_UnmappedLocalChangeSendsNothing ==
    (/\ lastOp.op = "local"
     /\ strips[lastOp.key].cls = "ChannelStrip"
     /\ ~DictHas(mappings, <<ForwardKey(lastOp.key)[1], ForwardKey(lastOp.key)[2], lastOp.ctl>>))
    => /\ Len(Sends) = 0
       /\ Len(Wires) = 0
       /\ ~aborted
       /\ Shows(lastOp.key, lastOp.ctl, lastOp.val)

\* The fader of Bus 2 was moved: Bus 2 has a mapping of its own, its left
\* partner Bus 1 has none
C16_Witness ==
    /\ LocalOnLinkedMember
    /\ lastOp.key = <<"bus", 2>>
    /\ lastOp.ctl = "fader"
    /\ DictHas(mappings, <<"bus", 2, "fader">>)
    /\ ~DictHas(mappings, <<"bus", 1, "fader">>)
    /\ strips[<<"bus", 2>>].fader = lastOp.val
    /\ Len(trace) = 0

\* C17 as stated: set_fader_value(v) and set_pan_value(v) store
\* min(127, max(0, v)) on every strip, the master strip included, and every
\* stored fader and pan is within 0..127.
C17_SettersClampToMidiRange ==
    /\ (lastOp.op = "set" /\ lastOp.ctl = "fader")
          => strips[lastOp.key].fader = Min(127, Max(0, lastOp.val))
    /\ (lastOp.op = "set" /\ lastOp.ctl = "pan" /\ strips[lastOp.key].has_pan)
          => strips[lastOp.key].pan = Min(127, Max(0, lastOp.val))
    /\ \A k \in DOMAIN strips : strips[k].fader \in 0..127 /\ strips[k].pan \in 0..127

\* The top of a strip's fader: 140 for the master strip, 127 for the others
FaderTop(k) == IF strips[k].is_master THEN MASTER_UI_MAX_CC ELSE 127

\* C17 as amended: set_fader_value(v) stores min(top, max(0, v)) where top
\* is 127 for every strip but the master and 140 for the master strip;
\* set_pan_value(v) stores min(127, max(0, v)); every stored fader is within
\* 0..top and every stored pan within 0..127.
C17_SettersClampToSliderRange ==
    /\ (lastOp.op = "set" /\ lastOp.ctl = "fader")
          => strips[lastOp.key].fader = Min(FaderTop(lastOp.key), Max(0, lastOp.val))
    /\ (lastOp.op = "set" /\ lastOp.ctl = "pan" /\ strips[lastOp.key].has_pan)
          => strips[lastOp.key].pan = Min(127, Max(0, lastOp.val))
    /\ \A k \in DOMAIN strips :
          strips[k].fader \in 0..FaderTop(k) /\ strips[k].pan \in 0..127

\* set_fader_value(200) was called on the master strip and then
\* set_pan_value(-5) on a strip with a pan dial
C17_Witness ==
    /\ lastOp.op = "set"
    /\ lastOp.ctl = "pan"
    /\ lastOp.val = -5
    /\ strips[lastOp.key].has_pan
    /\ strips[lastOp.key].pan = 0
    /\ pre[<<"master", 1>>].fader = MASTER_UI_MAX_CC
    /\ strips[<<"master", 1>>].fader = MASTER_UI_MAX_CC

\* C18: every control_change message handed to the output port has a value
\* within 0..127 and a channel within 0..15, and a move of the master fader
\* above 127 is transmitted with value 127.
C18_WireMessagesInMidiRange ==
    /\ \A i \in 1..Len(Wires) : Wires[i].val \in 0..127 /\ Wires[i].ch \in 0..15
    /\ (/\ lastOp.op = "local"
        /\ lastOp.ctl = "fader"
        /\ strips[lastOp.key].is_master
        /\ lastOp.val > 127)
       => /\ Len(Wires) >= 1
          /\ \A i \in 1..Len(Wires) : Wires[i].val = 127

\* The master fader was dragged to 140 after the mute of Channel 3, whose
\* mapping names MIDI channel 17, had been clicked
C18_Witness ==
    /\ lastOp.op = "local"
    /\ lastOp.key = <<"master", 1>>
    /\ lastOp.val = MASTER_UI_MAX_CC
    /\ strips[<<"master", 1>>].fader = MASTER_UI_MAX_CC
    /\ Len(Wires) = 1
    /\ Wires[1].val = 127
    /\ pre[<<"channel", 3>>].mute
    /\ DictGet(mappings, <<"channel", 3, "mute">>).midi_channel > 16

\* C19: a message sent for a mapping with channel c in 1..16 goes on the
\* wire with channel c - 1, and the same message coming back from the
\* hardware is looked up with channel (c - 1) + 1 and resolves to the key of
\* that mapping.
C19_ChannelConvertedOncePerDirection ==
    lastOp.op = "local" =>
        \A i \in 1..Len(trace) :
            (trace[i].ev = "wire" /\ trace[i - 1].ch \in 1..16) =>
                /\ trace[i - 1].ev = "send"
                /\ trace[i].ch = trace[i - 1].ch - 1
                /\ trace[i].ch \in 0..15
                /\ InboundKey(WireToConfig(trace[i].ch), trace[i].cc)
                      = <<ForwardKey(lastOp.key)[1], ForwardKey(lastOp.key)[2], lastOp.ctl>>
                /\ DictGet(mappings, InboundKey(WireToConfig(trace[i].ch), trace[i].cc)).midi_channel
                      = trace[i - 1].ch
                /\ DictGet(mappings, InboundKey(WireToConfig(trace[i].ch), trace[i].cc)).cc_number
                      = trace[i].cc

\* The master fader, mapped to MIDI channel 16, was moved and its message
\* went out on wire channel 15
C19_Witness ==
    /\ lastOp.op = "local"
    /\ lastOp.key = <<"master", 1>>
    /\ Len(Sends) = 1
    /\ Sends[1].ch = 16
    /\ Len(Wires) = 1
    /\ Wires[1].ch = 15
    /\ InboundKey(WireToConfig(Wires[1].ch), Wires[1].cc) = <<"master", 1, "fader">>

\* The port's send raised during the last handler
Raises == SelectSeq(trace, LAMBDA e : e.ev = "raise")

\* C20: when the port's send raises during a local change, the program
\* goes on, the strip shows its new value and, on a linked pair, the partner
\* shows it as well.
C20_FailedSendIsNoOp ==
    (lastOp.op = "local" /\ Len(Raises) >= 1)
    => /\ ~aborted
       /\ Shows(lastOp.key, lastOp.ctl, lastOp.val)
       /\ LocalOnLinkedMember
             => Shows(PairPartner(lastOp.key), lastOp.ctl, lastOp.val)

(***************************************************************************)
(* The mono/stereo registry and the mapping table                          *)
(***************************************************************************)
\* "stereo" in any case
StereoSpellings == {"stereo", "Stereo", "STEREO"}

\* The odd keys whose tag declares a pair that fits in the section
DeclaredLefts ==
    {k \in RegistryKeys : /\ k[2] % 2 = 1
                          /\ mono_stereo_data[k] \in StereoSpellings
                          /\ k[2] + 1 <= SectionMax(k[1])}

\* C11: once the registry is loaded, every odd key tagged "stereo" in any
\* case whose even neighbour fits in the section is paired with that
\* neighbour: both are pairs, each is the other's partner, the odd one is
\* left and the even one is right; and the partner of the partner of a
\* paired key is the key itself.
C11_StereoTagPairsNeighbours ==
    load_pc = "done" =>
        /\ \A k \in DeclaredLefts :
              /\ IsStereoPairIn(registry_pairs, k)
              /\ IsStereoPairIn(registry_pairs, <<k[1], k[2] + 1>>)
              /\ StereoPartnerIn(registry_pairs, k) = <<k[1], k[2] + 1>>
              /\ StereoPartnerIn(registry_pairs, <<k[1], k[2] + 1>>) = k
              /\ IsStereoLeftIn(registry_pairs, k)
              /\ IsStereoRightIn(registry_pairs, <<k[1], k[2] + 1>>)
        /\ \A x \in RegistryKeys :
              IsStereoPairIn(registry_pairs, x) =>
                  StereoPartnerIn(registry_pairs, StereoPartnerIn(registry_pairs, x)) = x

\* A loaded registry with a pair declared in capitals, a pair declared in
\* title case and an odd key tagged stereo whose neighbour would lie beyond
\* the section
C11_Witness ==
    /\ load_pc = "done"
    /\ mono_stereo_csv[<<"Channel", 1>>] = "STEREO"
    /\ mono_stereo_csv[<<"Bus", 1>>] = "Stereo"
    /\ StereoPartnerIn(registry_pairs, <<"Channel", 2>>) = <<"Channel", 1>>
    /\ IsStereoRightIn(registry_pairs, <<"Bus", 2>>)
    /\ \E k \in RegistryKeys :
          /\ k[2] % 2 = 1
          /\ mono_stereo_data[k] \in StereoSpellings
          /\ k[2] + 1 > SectionMax(k[1])
          /\ ~IsStereoPairIn(registry_pairs, k)

\* C12: the pairs of the loaded registry are exactly the (odd, odd + 1)
\* neighbours of one section whose odd member is tagged "stereo" and whose
\* even member fits in the section; the even member's tag plays no part and
\* Master is never paired.
C12_PairsAreExactlyDeclaredNeighbours ==
    load_pc = "done" =>
        /\ DOMAIN registry_pairs =
              DeclaredLefts \cup {<<k[1], k[2] + 1>> : k \in DeclaredLefts}
        /\ \A k \in DOMAIN registry_pairs :
              /\ registry_pairs[k][1] = k[1]
              /\ registry_pairs[k][2] = IF k[2] % 2 = 1 THEN k[2] + 1 ELSE k[2] - 1
        /\ \A k \in DOMAIN registry_pairs : k[1] # "Master"
        /\ ~IsStereoPairIn(registry_pairs, <<"Master", 1>>)

\* A loaded registry where odd Mono / even Stereo gave no pair and odd
\* Stereo / even Mono gave a pair
C12_Witness ==
    /\ load_pc = "done"
    /\ mono_stereo_data[<<"Channel", 1>>] = "Mono"
    /\ mono_stereo_data[<<"Channel", 2>>] = "Stereo"
    /\ ~IsStereoPairIn(registry_pairs, <<"Channel", 1>>)
    /\ ~IsStereoPairIn(registry_pairs, <<"Channel", 2>>)
    /\ mono_stereo_data[<<"Bus", 1>>] = "Stereo"
    /\ mono_stereo_data[<<"Bus", 2>>] = "Mono"
    /\ StereoPartnerIn(registry_pairs, <<"Bus", 1>>) = <<"Bus", 2>>

\* The logical key and the address of a row of the table
RowKey(row) == <<Lower(row.name[1]), row.name[2], Lower(row.type)>>

RowAddress(row) == <<row.midi_channel, row.cc_number>>

\* No two rows share a key or an address
WellFormedRows(rows) ==
    \A i, j \in 1..Len(rows) :
        i # j => RowKey(rows[i]) # RowKey(rows[j]) /\ RowAddress(rows[i]) # RowAddress(rows[j])

\* C13: for a table without shared keys or addresses, the forward map
\* gives each row's midi_channel and cc_number for its (section, number,
\* type), and the reverse index gives that (section, number, type) for the
\* row's (midi_channel, cc_number).
C13_ForwardAndReverseRoundTrip ==
    (load_pc = "done" /\ WellFormedRows(csv_rows)) =>
        \A i \in 1..Len(csv_rows) :
            /\ DictHas(window_mappings, RowKey(csv_rows[i]))
            /\ DictGet(window_mappings, RowKey(csv_rows[i])).midi_channel
                  = csv_rows[i].midi_channel
            /\ DictGet(window_mappings, RowKey(csv_rows[i])).cc_number
                  = csv_rows[i].cc_number
            /\ DictHas(window_rev_index, RowAddress(csv_rows[i]))
            /\ DictGet(window_rev_index, RowAddress(csv_rows[i])) = RowKey(csv_rows[i])

\* A loaded and indexed table of several rows without shared keys or
\* addresses, one of them with a capitalised Type
C13_Witness ==
    /\ load_pc = "done"
    /\ Len(csv_rows) >= 2
    /\ WellFormedRows(csv_rows)
    /\ \E i \in 1..Len(csv_rows) : csv_rows[i].type = "Fader"
    /\ Len(window_rev_index) = Len(csv_rows)

\* The addresses that two or more forward entries carry
CollidingAddresses ==
    {a \in {RowAddress(window_mappings[i][2]) : i \in 1..Len(window_mappings)} :
        Cardinality({i \in 1..Len(window_mappings) :
                        RowAddress(window_mappings[i][2]) = a}) >= 2}

\* The last row of the table that carries address a
LastRowWith(a) ==
    csv_rows[CHOOSE i \in 1..Len(csv_rows) :
                /\ RowAddress(csv_rows[i]) = a
                /\ \A j \in (i + 1)..Len(csv_rows) : RowAddress(csv_rows[j]) # a]

\* C14: for an address that two or more forward entries carry, the reverse
\* index holds one key, the key of the last row of the table with that
\* address.
C14_ReverseIndexLastRowWins ==
    load_pc = "done" =>
        \A a \in CollidingAddresses :
            /\ Cardinality({i \in 1..Len(window_rev_index) : window_rev_index[i][1] = a}) = 1
            /\ DictGet(window_rev_index, a) = RowKey(LastRowWith(a))
\* The last token of the string is an integer numeral
LastTokenIsInt(s) == s # <<>> /\ s[Len(s)] \in IntTokens

\* C21: parse_section_and_number never raises, whatever the string: it
\* returns a (section, number) pair, and the number is 1 when the last token
\* is not an integer.
C21_ParseNeverRaises ==
    load_pc = "parsed" =>
        /\ ~parse_result.raised
        /\ ~LastTokenIsInt(parse_input) => parse_result.value[2] = 1

\* Both numeric fields of the text row are integer numerals
WellFormedTextRow(row) == row.midi_channel \in IntTokens /\ row.cc_number \in IntTokens

\* C22: loading a table in which some row has a non-numeric or empty MIDI
\* Channel or CC_Number does not fail: no error leaves load_midi_mappings and
\* every well-formed row is loaded.
C22_MalformedRowsTolerated ==
    load_pc \in {"mapped", "raised"} =>
        /\ load_pc = "mapped"
        /\ \A i \in 1..Len(csv_text) :
              WellFormedTextRow(csv_text[i]) =>
                  DictHas(window_mappings,
                          <<"channel", IntOf(csv_text[i].name[2]), Lower(csv_text[i].type)>>)

\* The left member of the pair of strip key k has a mapping for control ctl
LeftMapped(k, ctl) == DictHas(mappings, <<PairLeft(k)[1], PairLeft(k)[2], ctl>>)

\* C23: in linked-pair mode a local change of fader, pan or mute on either
\* member of a pair whose left member has no mapping for that control sends
\* no CC and still leaves both strips with the new value.
C23_UnmappedLeftStillMirrored ==
    (LocalOnLinkedMember /\ ~LeftMapped(lastOp.key, lastOp.ctl))
    => /\ Len(Sends) = 0
       /\ Shows(lastOp.key, lastOp.ctl, lastOp.val)
       /\ Shows(PairPartner(lastOp.key), lastOp.ctl, lastOp.val)

\* No slot is connected twice to the signal whose connections are slots
NoDuplicateSlots(slots) ==
    \A i, j \in 1..Len(slots) : slots[i] = slots[j] => i = j

\* C24: after the startup wiring and after every rebuild, one user action on
\* a control whose forward key is mapped produces exactly one outbound CC,
\* on mono strips, on both members of a linked pair and on wide strips, and
\* no signal of any strip holds the same connection twice.
C24_OneActionOneCC ==
    /\ (/\ lastOp.op = "local"
        /\ DictHas(mappings, <<ForwardKey(lastOp.key)[1], ForwardKey(lastOp.key)[2], lastOp.ctl>>))
       => Len(Sends) = 1 /\ Len(Wires) = 1
    /\ \A k \in DOMAIN strips :
          /\ NoDuplicateSlots(strips[k].fader_vc)
          /\ NoDuplicateSlots(strips[k].pan_vc)
          /\ NoDuplicateSlots(strips[k].toggled)
          /\ NoDuplicateSlots(strips[k].toggledCC)

\* C25: after any sequence of display-mode toggles, by the menu action or
\* by the check box, the strips were built for the mode stored in the
\* settings: wide strips exist exactly when it is 'wide_fader', partner links
\* exactly when it is 'linked_pair'.
C25_StripsBuiltForStoredMode ==
    /\ (\E k \in DOMAIN strips : strips[k].cls = "WideStereoStrip")
          <=> settings_mode = "wide_fader"
    /\ (\E k \in DOMAIN strips : strips[k].stereo_partner_strip # 0)
          <=> settings_mode = "linked_pair"

\* C26: a display-mode rebuild sends no outbound CC, whatever the captured
\* values are: restoring them into the rebuilt strips notifies nobody.
C26_RebuildSendsNothing ==
    lastOp.op = "checkbox" => Len(Sends) = 0 /\ Len(Wires) = 0

\* The strip key of registry key k
StripKey(k) == <<Lower(k[1]), k[2]>>

\* C27: with the strips built as wide strips, each pair of the registry is
\* one WideStereoStrip registered under the left number and no strip under
\* the right number, and a local change on a wide strip sends exactly one CC
\* with the left member's mapping for the control (none when the left member
\* has no such mapping), never with the right member's.
C27_WideStripRegisteredAndSentAsLeft ==
    /\ BuiltMode(strips) = "wide_fader"
       => \A k \in RegistryKeys :
             is_stereo_left(k)
             => /\ StripKey(k) \in DOMAIN strips
                /\ strips[StripKey(k)].cls = "WideStereoStrip"
                /\ StripKey(get_stereo_partner(k)) \notin DOMAIN strips
    /\ (lastOp.op = "local" /\ strips[lastOp.key].cls = "WideStereoStrip")
       => LET mk == <<lastOp.key[1], lastOp.key[2], lastOp.ctl>>
          IN  IF DictHas(mappings, mk)
              THEN /\ Len(Sends) = 1
                   /\ Sends[1].ch = DictGet(mappings, mk).midi_channel
                   /\ Sends[1].cc = DictGet(mappings, mk).cc_number
                   /\ Len(Wires) = 1
                   /\ Wires[1].cc = DictGet(mappings, mk).cc_number
              ELSE Len(Sends) = 0 /\ Len(Wires) = 0

\* The fader of the wide strip of pair Channel 1/2 was moved; both members
\* have a fader mapping, and the one CC went out with Channel 1's
C27_Witness ==
    /\ lastOp.op = "local"
    /\ lastOp.key = <<"channel", 1>>
    /\ lastOp.ctl = "fader"
    /\ strips[<<"channel", 1>>].cls = "WideStereoStrip"
    /\ <<"channel", 2>> \notin DOMAIN strips
    /\ DictHas(mappings, <<"channel", 2, "fader">>)
    /\ Len(Sends) = 1
    /\ Sends[1].cc = DictGet(mappings, <<"channel", 1, "fader">>).cc_number

\* The last handler ran the body of _rebuild_interface
Rebuilt == \E i \in 1..Len(trace) : trace[i].ev = "build"

LogicalChannels ==
    {<<"channel", i>> : i \in 1..FULL_CHANNELS} \cup {<<"bus", i>> : i \in 1..FULL_BUSES}
    \cup {<<"aux", i>> : i \in 1..FULL_AUXES} \cup {<<"master", 1>>}

\* Strip key k is the right member of a pair of the registry whose left
\* member has a wide strip
RightOfWideStrip(k) ==
    /\ IsStereoRightIn(registry_pairs, KeyOf(k[1], k[2]))
    /\ <<k[1], k[2] - 1>> \in DOMAIN strips
    /\ strips[<<k[1], k[2] - 1>>].cls = "WideStereoStrip"

\* C29: for every stereo registry, after _build_rows in linked-pair mode
\* every logical channel (Channel 1..64, Bus 1..24, Aux 1..12, Master) has
\* its strip under its own number and there are no other strips; in wide
\* mode every logical channel has its own strip or is the right member of a
\* pair whose left member has a wide strip; the row limits skip no channel.
C29_EveryChannelHasAStrip ==
    load_pc = "built"
    => /\ DOMAIN strips \subseteq LogicalChannels
       /\ settings_mode = "linked_pair"
          => /\ DOMAIN strips = LogicalChannels
             /\ \A k \in LogicalChannels : strips[k].cls = "ChannelStrip"
       /\ settings_mode = "wide_fader"
          => \A k \in LogicalChannels :
                /\ k \in DOMAIN strips \/ RightOfWideStrip(k)
                /\ ~(k \in DOMAIN strips /\ RightOfWideStrip(k))

\* Wide mode with the pairs Channel 23/24 and Channel 25/26: the first row
\* ended at its limit, with channel 25 next, and three rows were needed
C29_Witness ==
    /\ load_pc = "built"
    /\ settings_mode = "wide_fader"
    /\ IsStereoLeftIn(registry_pairs, <<"Channel", 23>>)
    /\ IsStereoLeftIn(registry_pairs, <<"Channel", 25>>)
    /\ Len(trace) = 3
    /\ trace[1].key = <<"channel", 25>>
    /\ trace[3].key = <<"channel", 65>>
    /\ strips[<<"channel", 23>>].cls = "WideStereoStrip"
    /\ <<"channel", 24>> \notin DOMAIN strips

\* The calls of send_cc the last handler made for a mute button
MuteSends == SelectSeq(trace, LAMBDA e : e.ev = "send" /\ e.ctl = "mute")

\* C30: the mute encoding round-trips: a local toggle sends 127 when the
\* strip is now muted and 0 when it is now unmuted, an inbound mute CC leaves
\* the strip muted exactly when its value is at least 64, and so the value
\* sent, read as an inbound value, gives the mute state it was sent for.
C30_MuteEncodingRoundTrips ==
    /\ (lastOp.op = "local" /\ lastOp.ctl = "mute")
       => \A i \in 1..Len(MuteSends) :
             /\ MuteSends[i].val = IF strips[lastOp.key].mute THEN 127 ELSE 0
             /\ (MuteSends[i].val >= 64) = strips[lastOp.key].mute
    /\ (lastOp.op = "inbound" /\ lastOp.ctl = "mute" /\ lastOp.key \in DOMAIN strips)
       => strips[lastOp.key].mute = (lastOp.val >= 64)

\* The mute button of Channel 1 was switched on and 127 was sent
C30_Witness ==
    /\ lastOp.op = "local"
    /\ lastOp.ctl = "mute"
    /\ lastOp.key = <<"channel", 1>>
    /\ ~pre[<<"channel", 1>>].mute
    /\ strips[<<"channel", 1>>].mute
    /\ Len(MuteSends) >= 1
    /\ MuteSends[1].val = 127

====
